---------------------------- MODULE Spec2Model ----------------------------
(***************************************************************************)
(* Section segmentation and semantic ranking pipeline                      *)
(* (utils/extractor.py, utils/ranker.py, run_collection.py,                *)
(* hackathon_main.py).                                                     *)
(*                                                                         *)
(* Python strings are TLA+ strings; a character is a string of length 1.   *)
(* Floating point scores are fixed-point integers: a similarity and a      *)
(* boost factor are counted in hundredths, a boosted score (their product) *)
(* in ten-thousandths.                                                     *)
(***************************************************************************)
EXTENDS Integers, Sequences, FiniteSets, TLC

VARIABLES
    driver,              \* the caller: "collection" | "hackathon" | "direct"
    documents,           \* the driver's list of documents (names or paths)
    pc,                  \* position of the driver: "extract" | "rank" | "done"
    docs_done,           \* documents of the input list already iterated
    all_sections,        \* the driver's all_sections list
    created,             \* history: every Section as the detector created it
    persona, job,        \* the persona / task strings of the input JSON
    _tokenizer,          \* ranker.py global: "None" or the loaded tokenizer
    _model,              \* ranker.py global: "None" or the loaded encoder
    _model_initialized,  \* ranker.py global
    filtered_sections,   \* rank_sections local
    expanded_terms,      \* rank_sections local expanded_keywords
    baseline,            \* rank_sections local: similarities before boosting
    similarities,        \* rank_sections local: similarities after boosting
    ranked_sections,     \* first list returned by rank_sections
    subsection_analysis, \* second list returned by rank_sections
    rank_outcome,        \* how the rank_sections call ended
    page_text,           \* parse_page_content argument text: the raw page
    cleaned_text,        \* parse_page_content local cleaned_text
    renormalized_text,   \* normalize_text applied to cleaned_text
    calls,               \* history: calls of rank_sections / initialize_bert_model
    tokenizer_loads,     \* history: AutoTokenizer.from_pretrained calls that returned
    model_loads,         \* history: AutoModel.from_pretrained calls that returned
    hash_seed,           \* the string-hash salt of the running interpreter
    query_keywords,      \* rank_sections local keywords
    enhanced_query,      \* rank_sections local enhanced_query
    previous_query,      \* history: enhanced_query of the run before
    extracted            \* history: every extract_sections call, its file and result

vars == <<driver, documents, pc, docs_done, all_sections, created, persona,
          job, _tokenizer, _model, _model_initialized, filtered_sections,
          expanded_terms, baseline, similarities, ranked_sections,
          subsection_analysis, rank_outcome, page_text, cleaned_text,
          renormalized_text, calls, tokenizer_loads, model_loads, hash_seed,
          query_keywords, enhanced_query, previous_query, extracted>>

-----------------------------------------------------------------------------
(* Strings *)

Ch(s, i) == SubSeq(s, i, i)

UPPER == "ABCDEFGHIJKLMNOPQRSTUVWXYZ"
LOWER == "abcdefghijklmnopqrstuvwxyz"
DIGITS == "0123456789"

CharsOf(s) == {Ch(s, i) : i \in 1..Len(s)}

UpperChars == CharsOf(UPPER)
LowerChars == CharsOf(LOWER)
AlphaChars == UpperChars \cup LowerChars
DigitChars == CharsOf(DIGITS)
\* \s of re, str.isspace() of strip() and split()
SpaceChars == {" ", "\t", "\n", "\r", "\f"}

IsUpper(c) == c \in UpperChars
IsLower(c) == c \in LowerChars
IsAlpha(c) == c \in AlphaChars
IsDigit(c) == c \in DigitChars
IsSpace(c) == c \in SpaceChars

SetMin(S) == CHOOSE x \in S : \A y \in S : x <= y
SetMax(S) == CHOOSE x \in S : \A y \in S : x >= y

RECURSIVE lstrip(_)
lstrip(s) ==
    IF Len(s) > 0 /\ IsSpace(Ch(s, 1)) THEN lstrip(SubSeq(s, 2, Len(s))) ELSE s

RECURSIVE rstrip(_)
rstrip(s) ==
    IF Len(s) > 0 /\ IsSpace(Ch(s, Len(s))) THEN rstrip(SubSeq(s, 1, Len(s) - 1)) ELSE s

\* str.strip()
strip(s) == rstrip(lstrip(s))

LowerOf == [c \in UpperChars |-> Ch(LOWER, CHOOSE i \in 1..Len(UPPER) : Ch(UPPER, i) = c)]

LowerCh(c) == IF IsUpper(c) THEN LowerOf[c] ELSE c

\* str.lower(): every upper-case letter replaced by its lower-case letter
RECURSIVE lower(_)
lower(s) ==
    LET upper == {i \in 1..Len(s) : IsUpper(Ch(s, i))}
    IN  IF upper = {} THEN s
        ELSE LET i == CHOOSE x \in upper : \A y \in upper : x <= y
             IN  SubSeq(s, 1, i - 1) \o LowerCh(Ch(s, i)) \o lower(SubSeq(s, i + 1, Len(s)))

\* a Python list built by a comprehension or a loop: its elements are computed
\* once, when the list is built
List(f) == f \o <<>>

\* the elements of a set of numbers, in increasing order
RECURSIVE AscendingIn(_, _, _)
AscendingIn(S, lo, hi) ==
    IF lo > hi THEN <<>>
    ELSE IF lo = hi THEN (IF lo \in S THEN <<lo>> ELSE <<>>)
    ELSE LET mid == (lo + hi) \div 2
         IN  AscendingIn(S, lo, mid) \o AscendingIn(S, mid + 1, hi)

Ascending(S) ==
    IF S = {} THEN <<>> ELSE AscendingIn(S, SetMin(S), SetMax(S))

\* str.split(): the maximal runs of non-whitespace, in order
split(s) ==
    LET starts == Ascending({i \in 1..Len(s) :
                      ~IsSpace(Ch(s, i)) /\ (i = 1 \/ IsSpace(Ch(s, i - 1)))})
        ends   == Ascending({i \in 1..Len(s) :
                      ~IsSpace(Ch(s, i)) /\ (i = Len(s) \/ IsSpace(Ch(s, i + 1)))})
    IN  List([k \in 1..Len(starts) |-> SubSeq(s, starts[k], ends[k])])

\* sep.join(parts)
RECURSIVE joinIn(_, _, _, _)
joinIn(sep, parts, lo, hi) ==
    IF lo > hi THEN ""
    ELSE IF lo = hi THEN parts[lo]
    ELSE LET mid == (lo + hi) \div 2
         IN  joinIn(sep, parts, lo, mid) \o sep \o joinIn(sep, parts, mid + 1, hi)

join(sep, parts) == joinIn(sep, parts, 1, Len(parts))

\* a in b, for strings
IsSubstr(a, b) ==
    \E i \in 1..(Len(b) - Len(a) + 1) : SubSeq(b, i, i + Len(a) - 1) = a

\* s[:n]
Prefix(s, n) == SubSeq(s, 1, IF n < Len(s) THEN n ELSE Len(s))

RECURSIVE Rep(_, _)
Rep(s, n) == IF n = 0 THEN "" ELSE s \o Rep(s, n - 1)

-----------------------------------------------------------------------------
(* utils/ranker.py: query construction *)

WordChars == AlphaChars \cup DigitChars \cup {"_"}

IsWordCh(c) == c \in WordChars

\* re.findall(r'\b[a-zA-Z]{3,}\b', s): a match starts and ends at a word
\* boundary, so it is a maximal run of word characters, all of them letters,
\* at least 3 long
findall_words(s) ==
    LET starts == {i \in 1..Len(s) :
                      IsWordCh(Ch(s, i)) /\ (i = 1 \/ ~IsWordCh(Ch(s, i - 1)))}
        ends   == {i \in 1..Len(s) :
                      IsWordCh(Ch(s, i)) /\ (i = Len(s) \/ ~IsWordCh(Ch(s, i + 1)))}
        kth(S, k) == CHOOSE i \in S : Cardinality({j \in S : j < i}) = k - 1
        runs   == List([k \in 1..Cardinality(starts) |->
                           SubSeq(s, kth(starts, k), kth(ends, k))])
    IN  SelectSeq(runs, LAMBDA w : Len(w) >= 3 /\ \A i \in 1..Len(w) : IsAlpha(Ch(w, i)))

stop_words ==
    {"the", "and", "for", "are", "but", "not", "you", "all", "can", "had",
     "her", "was", "one", "our", "out", "day", "get", "has", "him", "how",
     "man", "new", "now", "old", "see", "two", "way", "who", "with", "that",
     "this", "will", "any", "may", "say", "she", "use", "each", "which",
     "their", "time", "work", "first", "been", "call", "find", "long",
     "down", "right", "look", "only", "come", "over", "think", "also",
     "back", "after", "very", "good", "well", "where", "much", "before"}

MaxKeywords == 12

\* a loop that appends every keyword, seen before or not
keep_repeats(ws) == ws

\* the order-preserving removal of repeats
RECURSIVE unique(_)
unique(ws) ==
    IF Len(ws) = 0 THEN <<>>
    ELSE LET front == unique(SubSeq(ws, 1, Len(ws) - 1))
             w     == ws[Len(ws)]
         IN  IF \E k \in 1..Len(front) : front[k] = w THEN front
             ELSE Append(front, w)

extract_dynamic_persona_keywords(p, j) ==
    LET combined_text == lower(p \o " " \o j)
        words    == findall_words(combined_text)
        keywords == SelectSeq(words, LAMBDA w : w \notin stop_words /\ Len(w) > 2)
        unique_keywords == unique(keywords)
    IN  SubSeq(unique_keywords, 1,
               IF Len(unique_keywords) < MaxKeywords THEN Len(unique_keywords)
               ELSE MaxKeywords)

synonym_map ==
    [food |-> <<"recipe", "dish", "meal", "cuisine", "cooking", "culinary">>,
     recipe |-> <<"dish", "meal", "food", "cooking", "preparation">>,
     vegetarian |-> <<"plant-based", "vegan", "meatless", "veggie">>,
     cooking |-> <<"preparation", "culinary", "recipe", "kitchen">>,
     menu |-> <<"dishes", "options", "selection", "offerings">>,
     buffet |-> <<"self-service", "spread", "selection">>,
     travel |-> <<"trip", "journey", "vacation", "tourism", "visit">>,
     trip |-> <<"journey", "travel", "vacation", "excursion">>,
     vacation |-> <<"holiday", "trip", "travel", "getaway">>,
     itinerary |-> <<"schedule", "plan", "agenda", "program">>,
     tourist |-> <<"visitor", "traveler", "sightseer">>,
     cultural |-> <<"heritage", "historical", "traditional">>,
     corporate |-> <<"business", "company", "office", "professional">>,
     business |-> <<"corporate", "company", "commercial", "professional">>,
     gathering |-> <<"meeting", "event", "function", "assembly">>,
     professional |-> <<"business", "corporate", "work">>,
     document |-> <<"file", "pdf", "form", "paper", "report">>,
     management |-> <<"administration", "organization", "coordination">>,
     plan |-> <<"organize", "schedule", "arrange", "design", "prepare">>,
     create |-> <<"make", "build", "generate", "produce", "develop">>,
     prepare |-> <<"make", "create", "organize", "arrange">>,
     organize |-> <<"arrange", "plan", "coordinate", "manage">>,
     arrange |-> <<"organize", "plan", "set up", "coordinate">>,
     schedule |-> <<"plan", "organize", "arrange", "time">>,
     coordinate |-> <<"organize", "manage", "arrange">>]

MaxSynonyms == 3

\* an expansion that takes every synonym of the table
expand_all_synonyms(keywords) ==
    LET seeded == {keywords[k] : k \in 1..Len(keywords)}
    IN  seeded \cup UNION {{synonym_map[kw][n] : n \in 1..Len(synonym_map[kw])} :
                              kw \in seeded \cap DOMAIN synonym_map}

\* the set the function builds; list(expanded_terms) is this set in the order
\* list_of_set gives it
expand_query_semantically(keywords) ==
    LET seeded == {keywords[k] : k \in 1..Len(keywords)}
        top(syn) == {syn[n] : n \in 1..(IF Len(syn) < MaxSynonyms THEN Len(syn)
                                        ELSE MaxSynonyms)}
    IN  seeded \cup UNION {top(synonym_map[kw]) :
                              kw \in seeded \cap DOMAIN synonym_map}

RECURSIVE SetToSeq(_)
SetToSeq(S) ==
    IF S = {} THEN <<>>
    ELSE LET x == CHOOSE y \in S : TRUE IN <<x>> \o SetToSeq(S \ {x})

Reverse(seq) == List([k \in 1..Len(seq) |-> seq[Len(seq) + 1 - k]])

\* list(expanded_terms) (line 148): a set of strings is iterated in the order
\* of the salted string hashes, and the salt is drawn anew by every
\* interpreter process; two salts with different orders stand for all
HashSeeds == {"salt_a", "salt_b"}

list_of_set(S, seed) ==
    IF seed = "salt_a" THEN SetToSeq(S) ELSE Reverse(SetToSeq(S))

MaxQueryTerms == 8

\* ' '.join([persona, job_description] + expanded_keywords[:8]).lower()
\* (lines 205-206)
build_enhanced_query(p, j, expanded_keywords) ==
    lower(join(" ", <<p, j>> \o SubSeq(expanded_keywords, 1,
                       IF Len(expanded_keywords) < MaxQueryTerms
                       THEN Len(expanded_keywords) ELSE MaxQueryTerms)))

-----------------------------------------------------------------------------
(* utils/ranker.py: quality filter *)

MinTitleLen == 3
MinTextLen == 20
MaxTextLen == 1000
MinSections == 5
RelaxedTitleLen == 2
RelaxedTextLen == 15
MaxBertSections == 20

is_low_quality_section(title, text) ==
    LET alpha == Cardinality({i \in 1..Len(text) :
                                 IsAlpha(Ch(text, i)) \/ IsSpace(Ch(text, i))})
        words == split(lower(text))
        distinct == Cardinality({words[k] : k \in 1..Len(words)})
        short == Cardinality({k \in 1..Len(words) : Len(words[k]) <= 2})
    IN  IF 10 * alpha < 6 * Len(text) THEN TRUE          \* < len(text) * 0.6
        ELSE IF 10 * distinct < 3 * Len(words) THEN TRUE \* < len(words) * 0.3
        ELSE IF 2 * short > Len(words) THEN TRUE         \* > len(words) * 0.5
        ELSE FALSE

\* the condition of the first loop
passes_quality(section) ==
    LET title == strip(section.section_title)
        text  == strip(section.section_text)
    IN  /\ Len(title) >= MinTitleLen
        /\ Len(text) >= MinTextLen
        /\ Len(text) <= MaxTextLen
        /\ ~is_low_quality_section(title, text)

\* the condition of the second loop
passes_relaxed(section) ==
    LET title == strip(section.section_title)
        text  == strip(section.section_text)
    IN  Len(title) >= RelaxedTitleLen /\ Len(text) >= RelaxedTextLen

\* the filter without the final [:20]
filter_sections_untruncated(sections) ==
    LET strict == SelectSeq(sections, passes_quality)
    IN  IF Len(strict) < MinSections THEN SelectSeq(sections, passes_relaxed) ELSE strict

\* the filter falling back to the relaxed pass at five survivors too
filter_sections_relaxed_at_five(sections) ==
    LET strict   == SelectSeq(sections, passes_quality)
        filtered == IF Len(strict) <= MinSections
                    THEN SelectSeq(sections, passes_relaxed)
                    ELSE strict
    IN  SubSeq(filtered, 1, IF Len(filtered) < MaxBertSections THEN Len(filtered)
                            ELSE MaxBertSections)

\* the filter that keeps the last 20 of the survivors
filter_sections_last_twenty(sections) ==
    LET filtered == filter_sections_untruncated(sections)
    IN  SubSeq(filtered,
               IF Len(filtered) < MaxBertSections THEN 1
               ELSE Len(filtered) - MaxBertSections + 1,
               Len(filtered))

\* the filter whose relaxed pass still applies the low-quality check
filter_sections_flagged_relaxed(sections) ==
    LET strict   == SelectSeq(sections, passes_quality)
        relaxed  == SelectSeq(sections, LAMBDA x :
                        /\ passes_relaxed(x)
                        /\ ~is_low_quality_section(strip(x.section_title),
                                                   strip(x.section_text)))
        filtered == IF Len(strict) < MinSections THEN relaxed ELSE strict
    IN  SubSeq(filtered, 1, IF Len(filtered) < MaxBertSections THEN Len(filtered)
                            ELSE MaxBertSections)

filter_sections_for_bert(sections) ==
    LET strict   == SelectSeq(sections, passes_quality)
        filtered == IF Len(strict) < MinSections
                    THEN SelectSeq(sections, passes_relaxed)
                    ELSE strict
    IN  SubSeq(filtered, 1, IF Len(filtered) < MaxBertSections THEN Len(filtered)
                            ELSE MaxBertSections)

-----------------------------------------------------------------------------
(* utils/ranker.py: embedding input, scoring, result assembly *)

MaxWords == 350

\* the text prepare_texts_for_bert appends for one section
enhanced_text(section) ==
    LET full  == lower(section.section_title \o " " \o section.section_title
                       \o " " \o section.section_text)
        words == split(full)
    IN  IF Len(words) > MaxWords
        THEN join(" ", SubSeq(words, 1, MaxWords)) \o "..."
        ELSE full

\* the query goes first
prepare_texts_for_bert(sections, query) ==
    <<query>> \o List([i \in 1..Len(sections) |-> enhanced_text(sections[i])])

\* The loaded encoders.  The transformer is a library outside the repository:
\* each encoder stands for one fixed table of cosine similarities (hundredths,
\* in -100..100) between a query and a prepared text; the full-precision
\* table spreads over the whole range, the quantized one is flat.
Encoders == {"roberta-base", "roberta-base-int8"}

cosine_similarity(model, query, text) ==
    IF model = "roberta-base"
    THEN ((Len(text) * 37 + Len(query)) % 201) - 100
    ELSE 50

recipe_types == {"recipe_component", "complete_recipe", "individual_recipe"}
food_words == {"food", "recipe", "vegetarian", "menu"}
procedural_types == {"heading_based", "procedural"}
proc_words == {"plan", "organize", "prepare", "create"}

\* the multiplier of one section, in hundredths; joined is
\* ' '.join(expanded_keywords)
boost_factor(section, expanded_keywords, joined) ==
    LET title_lower == lower(section.section_title)
        text_lower  == lower(section.section_text)
        title_matches == Cardinality({kw \in expanded_keywords : IsSubstr(kw, title_lower)})
        text_matches  == Cardinality({kw \in expanded_keywords : IsSubstr(kw, text_lower)})
        title_boost == IF title_matches > 0 THEN 25 + title_matches * 10 ELSE 0
        text_boost  == IF text_matches > 0 THEN 10 + text_matches * 5 ELSE 0
        recipe_boost ==
            IF /\ section.section_type \in recipe_types
               /\ \E w \in food_words : IsSubstr(w, joined)
            THEN 20 ELSE 0
        proc_boost ==
            IF /\ section.section_type \in procedural_types
               /\ \E w \in proc_words : IsSubstr(w, joined)
            THEN 15 ELSE 0
    IN  100 + title_boost + text_boost + recipe_boost + proc_boost

\* a boosting that multiplies each score by its factor a second time
apply_persona_boosting_compounded(sims, sections, expanded_keywords) ==
    LET joined == join(" ", SetToSeq(expanded_keywords))
    IN  List([i \in 1..Len(sims) |->
                 IF i <= Len(sections)
                 THEN LET f == boost_factor(sections[i], expanded_keywords, joined)
                      IN  (sims[i] * f * f) \div 100
                 ELSE sims[i] * 100])

\* expanded_keywords is the set of the list's elements: the list holds no
\* repeats, and the inserted separator " " occurs in none of the searched
\* words, so neither a count nor a search depends on the list's order
apply_persona_boosting(sims, sections, expanded_keywords) ==
    LET joined == join(" ", SetToSeq(expanded_keywords))
    IN  List([i \in 1..Len(sims) |->
                 IF i <= Len(sections)
                 THEN sims[i] * boost_factor(sections[i], expanded_keywords, joined)
                 ELSE sims[i] * 100])

MaxResults == 15
MaxRefined == 300

\* list(zip(similarities, sections)): as long as the shorter of the two
zip(sims, sections) ==
    LET n == IF Len(sims) < Len(sections) THEN Len(sims) ELSE Len(sections)
    IN  List([i \in 1..n |-> [score |-> sims[i], section |-> sections[i]]])

\* the sort step that puts the pair in front of the pairs of equal score
RECURSIVE insert_before_equal(_, _)
insert_before_equal(sorted, pair) ==
    IF sorted = <<>> THEN <<pair>>
    ELSE IF Head(sorted).score > pair.score
    THEN <<Head(sorted)>> \o insert_before_equal(Tail(sorted), pair)
    ELSE <<pair>> \o sorted

\* one step of the stable descending sort: the pair goes behind every pair
\* whose score is not smaller
RECURSIVE insert_sorted(_, _)
insert_sorted(sorted, pair) ==
    IF sorted = <<>> THEN <<pair>>
    ELSE IF Head(sorted).score >= pair.score
    THEN <<Head(sorted)>> \o insert_sorted(Tail(sorted), pair)
    ELSE <<pair>> \o sorted

\* section_scores.sort(reverse=True, key=lambda x: x[0]): descending, and
\* stable (pairs of equal score keep their order)
RECURSIVE sort_reverse(_)
sort_reverse(pairs) ==
    IF pairs = <<>> THEN <<>>
    ELSE insert_sorted(sort_reverse(SubSeq(pairs, 1, Len(pairs) - 1)), pairs[Len(pairs)])

ranked_entry(rank, score, section) ==
    [document         |-> section.document,
     section_title    |-> section.section_title,
     page_number      |-> section.page_number,
     importance_rank  |-> rank,
     similarity_score |-> score,
     section_type     |-> section.section_type]

analysis_entry(section) ==
    LET text == section.section_text
        refined_text == IF Len(text) > MaxRefined
                        THEN Prefix(text, MaxRefined) \o "..." ELSE text
    IN  [document      |-> section.document,
         section_title |-> section.section_title,
         refined_text  |-> strip(refined_text),
         page_number   |-> section.page_number,
         section_type  |-> section.section_type]

\* the assembly without the limit of max_results
create_ranked_results_unlimited(sims, sections) ==
    LET section_scores == sort_reverse(zip(sims, sections))
    IN  << List([r \in 1..Len(section_scores) |->
                    ranked_entry(r, section_scores[r].score, section_scores[r].section)]),
           List([r \in 1..Len(section_scores) |->
                    analysis_entry(section_scores[r].section)]) >>

\* an assembly that takes the analysis entries from the sections as they
\* came in, not from the sorted pairs
create_ranked_results_unsorted_analysis(sims, sections) ==
    LET all == sort_reverse(zip(sims, sections))
        max_results == IF MaxResults < Len(all) THEN MaxResults ELSE Len(all)
        section_scores == SubSeq(all, 1, max_results)
    IN  << List([r \in 1..Len(section_scores) |->
                    ranked_entry(r, section_scores[r].score, section_scores[r].section)]),
           List([r \in 1..Len(section_scores) |-> analysis_entry(sections[r])]) >>

\* <<ranked_sections, subsection_analysis>>
create_ranked_results(sims, sections) ==
    LET all == sort_reverse(zip(sims, sections))
        max_results == IF MaxResults < Len(all) THEN MaxResults ELSE Len(all)
        section_scores == SubSeq(all, 1, max_results)
    IN  << List([r \in 1..Len(section_scores) |->
                    ranked_entry(r, section_scores[r].score, section_scores[r].section)]),
           List([r \in 1..Len(section_scores) |->
                    analysis_entry(section_scores[r].section)]) >>

-----------------------------------------------------------------------------
(* utils/ranker.py: the process-wide encoder and rank_sections *)

\* an initialization that sets the flag before the two loads
initialize_bert_model_flag_first ==
    IF _model_initialized
    THEN {[tok |-> _tokenizer, mdl |-> _model, init |-> TRUE,
           ret_tok |-> _tokenizer, ret_mdl |-> _model,
           tok_loaded |-> 0, mdl_loaded |-> 0]}
    ELSE {[tok |-> _tokenizer, mdl |-> _model, init |-> TRUE,
           ret_tok |-> "None", ret_mdl |-> "None",
           tok_loaded |-> 0, mdl_loaded |-> 0],
          [tok |-> "roberta-base", mdl |-> _model, init |-> TRUE,
           ret_tok |-> "None", ret_mdl |-> "None",
           tok_loaded |-> 1, mdl_loaded |-> 0],
          [tok |-> "roberta-base", mdl |-> "roberta-base-int8", init |-> TRUE,
           ret_tok |-> "roberta-base", ret_mdl |-> "roberta-base-int8",
           tok_loaded |-> 1, mdl_loaded |-> 1],
          [tok |-> "roberta-base", mdl |-> "roberta-base", init |-> TRUE,
           ret_tok |-> "roberta-base", ret_mdl |-> "roberta-base",
           tok_loaded |-> 1, mdl_loaded |-> 1]}

\* The ways one call of initialize_bert_model can end: the new globals and the
\* returned pair.  The import or the tokenizer load may fail, the model load
\* may fail (the tokenizer stays set), and a failed quantization keeps the
\* full-precision model.
\* tok_loaded and mdl_loaded count the from_pretrained calls of this call that
\* returned an object.
initialize_bert_model ==
    IF _model_initialized
    THEN {[tok |-> _tokenizer, mdl |-> _model, init |-> TRUE,
           ret_tok |-> _tokenizer, ret_mdl |-> _model,
           tok_loaded |-> 0, mdl_loaded |-> 0]}
    ELSE {[tok |-> _tokenizer, mdl |-> _model, init |-> FALSE,
           ret_tok |-> "None", ret_mdl |-> "None",
           tok_loaded |-> 0, mdl_loaded |-> 0],
          [tok |-> "roberta-base", mdl |-> _model, init |-> FALSE,
           ret_tok |-> "None", ret_mdl |-> "None",
           tok_loaded |-> 1, mdl_loaded |-> 0],
          [tok |-> "roberta-base", mdl |-> "roberta-base-int8", init |-> TRUE,
           ret_tok |-> "roberta-base", ret_mdl |-> "roberta-base-int8",
           tok_loaded |-> 1, mdl_loaded |-> 1],
          [tok |-> "roberta-base", mdl |-> "roberta-base", init |-> TRUE,
           ret_tok |-> "roberta-base", ret_mdl |-> "roberta-base",
           tok_loaded |-> 1, mdl_loaded |-> 1]}

\* where an exception is raised inside the try block of rank_sections
Faults == {"none", "filter", "embed", "boost", "assemble"}

Nothing ==
    [filtered |-> <<>>, keywords |-> <<>>, expanded |-> {}, query |-> "",
     baseline |-> <<>>, sims |-> <<>>, ranked |-> <<>>, analysis |-> <<>>]

\* what the statements of the try block compute before the encoder is used
\* (lines 186-205)
query_stages(sections, p, j) ==
    LET filtered == filter_sections_for_bert(sections)
        keywords == extract_dynamic_persona_keywords(p, j)
        expanded == expand_query_semantically(keywords)
        query    == build_enhanced_query(p, j, list_of_set(expanded, hash_seed))
    IN  [filtered |-> filtered,
         keywords |-> keywords,
         expanded |-> expanded,
         query    |-> query,
         texts    |-> prepare_texts_for_bert(filtered, query)]

\* what the statements of the try block compute, in order (lines 186-235):
\* the query embedding is row 0, the section embeddings are the rows behind it
try_stages(pre, model) ==
    LET base    == List([i \in 1..(Len(pre.texts) - 1) |->
                            cosine_similarity(model, pre.texts[1], pre.texts[i + 1])])
        boosted == apply_persona_boosting(base, pre.filtered, pre.expanded)
        results == create_ranked_results(boosted, pre.filtered)
    IN  [filtered |-> pre.filtered, keywords |-> pre.keywords,
         expanded |-> pre.expanded, query |-> pre.query, baseline |-> base,
         sims |-> boosted, ranked |-> results[1], analysis |-> results[2]]

\* the try block run up to its exit: it returns its results, returns early
\* when nothing is left after filtering, or raises at the faulty statement
try_block(st, fault) ==
    IF fault = "filter" THEN Nothing @@ [exit |-> "raise"]
    ELSE IF Len(st.filtered) = 0
    THEN Nothing @@ [exit |-> "empty"]
    ELSE IF fault = "embed"
    THEN [Nothing EXCEPT !.filtered = st.filtered, !.keywords = st.keywords,
                         !.expanded = st.expanded, !.query = st.query]
         @@ [exit |-> "raise"]
    ELSE IF fault = "boost"
    THEN [Nothing EXCEPT !.filtered = st.filtered, !.keywords = st.keywords,
                         !.expanded = st.expanded, !.query = st.query,
                         !.baseline = st.baseline] @@ [exit |-> "raise"]
    ELSE IF fault = "assemble"
    THEN [Nothing EXCEPT !.filtered = st.filtered, !.keywords = st.keywords,
                         !.expanded = st.expanded, !.query = st.query,
                         !.baseline = st.baseline, !.sims = st.sims]
         @@ [exit |-> "raise"]
    ELSE st @@ [exit |-> "return"]

\* a handler that lets the exception through
except_reraise(body) == body

\* except Exception (lines 237-239): the exception ends here and the call
\* returns two empty lists
except_handler(body) ==
    IF body.exit = "raise"
    THEN [body EXCEPT !.ranked = <<>>, !.analysis = <<>>, !.exit = "caught"]
    ELSE body

\* The ways one call of rank_sections can end: the globals, the locals and the
\* returned lists.  exit tells how it ended: "no_model", "no_sections",
\* "empty" (nothing left after filtering), "caught", "return", or "raise" for
\* an exception that reaches the caller.
rank_sections(sections, p, j) ==
    LET pre == query_stages(sections, p, j)
    IN  UNION {
            LET globals == [tok |-> ini.tok, mdl |-> ini.mdl, init |-> ini.init,
                            tok_loaded |-> ini.tok_loaded,
                            mdl_loaded |-> ini.mdl_loaded]
            IN  IF ini.ret_tok = "None" \/ ini.ret_mdl = "None"
                THEN {globals @@ Nothing @@ [exit |-> "no_model"]}
                ELSE IF Len(sections) = 0
                THEN {globals @@ Nothing @@ [exit |-> "no_sections"]}
                ELSE LET st == try_stages(pre, ini.ret_mdl)
                     IN  {globals @@ except_handler(try_block(st, fault)) :
                             fault \in Faults}
            : ini \in initialize_bert_model }

-----------------------------------------------------------------------------
(* utils/extractor.py: normalize_text *)

\* ''.join(parts)
RECURSIVE concat(_)
concat(parts) ==
    IF Len(parts) = 0 THEN ""
    ELSE IF Len(parts) = 1 THEN parts[1]
    ELSE LET h == Len(parts) \div 2
         IN  concat(SubSeq(parts, 1, h)) \o concat(SubSeq(parts, h + 1, Len(parts)))

\* re.sub(r'\s+', ' ', text): every run of white space becomes one space
sub_whitespace(text) ==
    concat([i \in 1..Len(text) |->
               IF ~IsSpace(Ch(text, i)) THEN Ch(text, i)
               ELSE IF i > 1 /\ IsSpace(Ch(text, i - 1)) THEN ""
               ELSE " "])

\* re.sub(r'([a-z])([A-Z])', r'\1 \2', text)
sub_camel_case(text) ==
    concat([i \in 1..Len(text) |->
               IF i < Len(text) /\ IsLower(Ch(text, i)) /\ IsUpper(Ch(text, i + 1))
               THEN Ch(text, i) \o " " ELSE Ch(text, i)])

\* re.sub(r'(\d+)([A-Za-z])', r'\1 \2', text)
sub_digit_letter(text) ==
    concat([i \in 1..Len(text) |->
               IF i < Len(text) /\ IsDigit(Ch(text, i)) /\ IsAlpha(Ch(text, i + 1))
               THEN Ch(text, i) \o " " ELSE Ch(text, i)])

\* re.sub(r'([a-zA-Z])(\d+)', r'\1 \2', text)
sub_letter_digit(text) ==
    concat([i \in 1..Len(text) |->
               IF i < Len(text) /\ IsAlpha(Ch(text, i)) /\ IsDigit(Ch(text, i + 1))
               THEN Ch(text, i) \o " " ELSE Ch(text, i)])

\* re.sub(r'\.{2,}', '.', text): a run of periods becomes one period
sub_periods(text) ==
    concat([i \in 1..Len(text) |->
               IF Ch(text, i) = "." /\ i > 1 /\ Ch(text, i - 1) = "." THEN ""
               ELSE Ch(text, i)])

\* the white space at i belongs to a run that touches a period
BesidePeriod(text, i) ==
    \/ \E j \in 1..(i - 1) :
          Ch(text, j) = "." /\ \A k \in (j + 1)..i : IsSpace(Ch(text, k))
    \/ \E j \in (i + 1)..Len(text) :
          Ch(text, j) = "." /\ \A k \in i..(j - 1) : IsSpace(Ch(text, k))

\* the replacement that leaves the white space around a period in place
sub_period_only(text) ==
    concat([i \in 1..Len(text) |-> IF Ch(text, i) = "." THEN ". " ELSE Ch(text, i)])

\* re.sub(r'\s*\.\s*', '. ', text): a period and the white space around it
\* become a period and one space
sub_period_spacing(text) ==
    concat([i \in 1..Len(text) |->
               IF Ch(text, i) = "." THEN ". "
               ELSE IF IsSpace(Ch(text, i)) /\ BesidePeriod(text, i) THEN ""
               ELSE Ch(text, i)])

\* a normalization without its first step, which leaves the line breaks in
normalize_text_keeping_lines(text) ==
    strip(sub_period_spacing(sub_periods(sub_letter_digit(sub_digit_letter(
        sub_camel_case(text))))))

normalize_text(text) ==
    strip(sub_period_spacing(sub_periods(sub_letter_digit(sub_digit_letter(
        sub_camel_case(sub_whitespace(text)))))))

-----------------------------------------------------------------------------
(* utils/extractor.py: detect_heading_sections *)

\* Path(p).name and os.path.basename(p): what follows the last "/"
PathName(p) ==
    LET slashes == {i \in 1..Len(p) : Ch(p, i) = "/"}
    IN  IF slashes = {} THEN p ELSE SubSeq(p, SetMax(slashes) + 1, Len(p))

\* the dictionary every detector strategy appends
Section(title, text, pdf_path, page_num, type) ==
    [document      |-> PathName(pdf_path),
     section_title |-> title,
     section_text  |-> text,
     page_number   |-> page_num,
     section_type  |-> type]

\* text.split(sep) for a separator of one character out of seps: the pieces
\* between the separators, empty ones included
split_at(text, seps) ==
    LET cuts == Ascending({i \in 1..Len(text) : Ch(text, i) \in seps})
    IN  List([k \in 1..(Len(cuts) + 1) |->
                 SubSeq(text,
                        IF k = 1 THEN 1 ELSE cuts[k - 1] + 1,
                        IF k > Len(cuts) THEN Len(text) ELSE cuts[k] - 1)])

\* every character of s from position a to position b is in the class
AllIn(s, a, b, class) == \A i \in a..b : Ch(s, i) \in class

\* what stands in front of the optional colon that ends a heading line
HeadingBody(line) ==
    IF Len(line) > 0 /\ Ch(line, Len(line)) = ":"
    THEN SubSeq(line, 1, Len(line) - 1) ELSE line

\* [A-Z][A-Z\s&]{3,}
IsCapsHeading(g) ==
    /\ Len(g) >= 4
    /\ IsUpper(Ch(g, 1))
    /\ AllIn(g, 2, Len(g), UpperChars \cup SpaceChars \cup {"&"})

\* [A-Z][A-Za-z\s]{n,} from position i to the end of g
IsCapitalTail(g, i, n) ==
    /\ i <= Len(g)
    /\ IsUpper(Ch(g, i))
    /\ Len(g) - i >= n
    /\ AllIn(g, i + 1, Len(g), AlphaChars \cup SpaceChars)

\* the last position of the run of digits that starts at i, or i - 1
DigitsEnd(text, i) ==
    LET stops == {j \in i..Len(text) : ~IsDigit(Ch(text, j))}
    IN  IF stops = {} THEN Len(text) ELSE SetMin(stops) - 1

\* the first position from i on that holds no white space (\s* is greedy);
\* Len(text) + 1 when there is none
SkipSpace(text, i) ==
    LET rest == {j \in i..Len(text) : ~IsSpace(Ch(text, j))}
    IN  IF rest = {} THEN Len(text) + 1 ELSE SetMin(rest)

\* \d+\.?\d*\s+[A-Z][A-Za-z\s]{3,}
IsNumberedHeading(g) ==
    LET d == DigitsEnd(g, 1)
        f == IF d < Len(g) /\ Ch(g, d + 1) = "." THEN DigitsEnd(g, d + 2) ELSE d
        t == SkipSpace(g, f + 1)
    IN  d >= 1 /\ t > f + 1 /\ IsCapitalTail(g, t, 3)

\* [A-Z][a-z]+(?:\s+[A-Z][a-z]+)*
IsTitleCaseHeading(g) ==
    LET words == split(g)
    IN  /\ Len(g) > 0
        /\ ~IsSpace(Ch(g, 1))
        /\ ~IsSpace(Ch(g, Len(g)))
        /\ \A k \in 1..Len(words) :
               /\ Len(words[k]) >= 2
               /\ IsUpper(Ch(words[k], 1))
               /\ AllIn(words[k], 2, Len(words[k]), LowerChars)

\* Step\s+\d+[:\-]?\s*[A-Z][A-Za-z\s]+
IsStepHeading(g) ==
    /\ Len(g) >= 4
    /\ SubSeq(g, 1, 4) = "Step"
    /\ LET t == SkipSpace(g, 5)
           d == DigitsEnd(g, t)
           c == IF d < Len(g) /\ Ch(g, d + 1) \in {":", "-"} THEN d + 1 ELSE d
       IN  t > 5 /\ d >= t /\ IsCapitalTail(g, SkipSpace(g, c + 1), 1)

\* Recipe[:\-]?\s*[A-Z][A-Za-z\s]+
IsRecipeHeading(g) ==
    /\ Len(g) >= 6
    /\ SubSeq(g, 1, 6) = "Recipe"
    /\ LET c == IF 6 < Len(g) /\ Ch(g, 7) \in {":", "-"} THEN 7 ELSE 6
       IN  IsCapitalTail(g, SkipSpace(g, c + 1), 1)

\* the title of a stripped line that one of the heading patterns matches,
\* the first pattern that matches deciding; "" for any other line
heading_match(line) ==
    LET body == HeadingBody(line)
    IN  IF IsCapsHeading(body) \/ IsNumberedHeading(body) \/ IsTitleCaseHeading(body)
        THEN strip(body)
        ELSE IF IsStepHeading(line) \/ IsRecipeHeading(line) THEN strip(line)
        ELSE ""

\* the loop over the lines (lines 112-140): state is
\* [current_section, content_buffer, sections]
RECURSIVE heading_loop(_, _, _, _, _)
heading_loop(lines, k, state, pdf_path, page_num) ==
    LET saved ==
            IF state.current_section # "" /\ Len(state.content_buffer) > 0
            THEN Append(state.sections,
                        Section(state.current_section,
                                join(" ", state.content_buffer),
                                pdf_path, page_num, "heading_based"))
            ELSE state.sections
    IN  IF k > Len(lines) THEN saved
        ELSE LET line == strip(lines[k])
                 heading == heading_match(line)
             IN  IF line = "" THEN heading_loop(lines, k + 1, state, pdf_path, page_num)
                 ELSE IF heading # ""
                 THEN heading_loop(lines, k + 1,
                          [current_section |-> heading, content_buffer |-> <<>>,
                           sections |-> saved], pdf_path, page_num)
                 ELSE IF state.current_section # ""
                 THEN heading_loop(lines, k + 1,
                          [state EXCEPT !.content_buffer = Append(@, line)],
                          pdf_path, page_num)
                 ELSE heading_loop(lines, k + 1, state, pdf_path, page_num)

detect_heading_sections(text, pdf_path, page_num) ==
    heading_loop(split_at(text, {"\n"}), 1,
                 [current_section |-> "", content_buffer |-> <<>>, sections |-> <<>>],
                 pdf_path, page_num)

-----------------------------------------------------------------------------
(* utils/extractor.py: detect_recipe_sections *)

UpperOf == [c \in LowerChars |-> Ch(UPPER, CHOOSE i \in 1..Len(LOWER) : Ch(LOWER, i) = c)]

UpperCh(c) == IF IsLower(c) THEN UpperOf[c] ELSE c

\* str.title(): a letter behind a letter in lower case, any other letter in
\* upper case
title_case(s) ==
    concat([i \in 1..Len(s) |->
               IF ~IsAlpha(Ch(s, i)) THEN Ch(s, i)
               ELSE IF i > 1 /\ IsAlpha(Ch(s, i - 1)) THEN LowerCh(Ch(s, i))
               ELSE UpperCh(Ch(s, i))])

\* under (?i) the literal word stands at position i of the text
LiteralAt(text, i, word) ==
    /\ i >= 1
    /\ i + Len(word) - 1 <= Len(text)
    /\ lower(SubSeq(text, i, i + Len(word) - 1)) = word

\* \s*:?\s* read from position i: where the captured content starts
ContentStart(text, i) ==
    LET a == SkipSpace(text, i)
    IN  IF a <= Len(text) /\ Ch(text, a) = ":" THEN SkipSpace(text, a + 1) ELSE a

\* [^\n]+ read from position i: the last position of the line
LineEnd(text, i) ==
    LET breaks == {j \in i..Len(text) : Ch(text, j) = "\n"}
    IN  IF breaks = {} THEN Len(text) ELSE SetMin(breaks) - 1

\* The markers of the four recipe patterns, each a list of alternatives in the
\* order of the pattern: a word, an optional last letter (s?), and for the
\* time markers a second word behind \s+.
Marker(word, opt, second) == [word |-> word, opt |-> opt, second |-> second]

recipe_patterns ==
    << << Marker("ingredient", "s", "") >>,
       << Marker("instruction", "s", ""), Marker("direction", "s", ""),
          Marker("method", "", ""), Marker("preparation", "", "") >>,
       << Marker("serve", "s", ""), Marker("serving", "", ""),
          Marker("portion", "s", "") >>,
       << Marker("cooking", "", "time"), Marker("prep", "", "time"),
          Marker("total", "", "time") >> >>

\* the last position of group 1 when the alternative matches at i, else 0
MarkerEnd(text, i, alt) ==
    IF ~LiteralAt(text, i, alt.word) THEN 0
    ELSE LET w == i + Len(alt.word)
         IN  IF alt.second # ""
             THEN LET t == SkipSpace(text, w)
                  IN  IF t > w /\ LiteralAt(text, t, alt.second)
                      THEN t + Len(alt.second) - 1 ELSE 0
             ELSE IF alt.opt # "" /\ LiteralAt(text, w, alt.opt) THEN w
             ELSE w - 1

\* the first alternative that matches at i decides
GroupEnd(text, i, alts) ==
    LET hits == {k \in 1..Len(alts) : MarkerEnd(text, i, alts[k]) > 0}
    IN  IF hits = {} THEN 0 ELSE MarkerEnd(text, i, alts[SetMin(hits)])

\* re.finditer(pattern, text, re.MULTILINE | re.DOTALL) from position pos on,
\* for one of the four marker patterns: the (group 1, group 2) of each match.
\* Group 2 starts with the greedy [^\n]+, which runs to the end of the line,
\* where the lookahead of the first two patterns ends the match at once ($
\* matches at every line end under re.MULTILINE).  A marker with nothing but
\* white space and a colon up to the end of the text captures no content that
\* could pass the length test, and ends the scan.
RECURSIVE finditer_marker(_, _, _)
finditer_marker(text, pos, alts) ==
    LET starts == {i \in pos..Len(text) :
                      /\ GroupEnd(text, i, alts) > 0
                      /\ ContentStart(text, GroupEnd(text, i, alts) + 1) <= Len(text)}
    IN  IF starts = {} THEN <<>>
        ELSE LET i == SetMin(starts)
                 e == GroupEnd(text, i, alts)
                 b == ContentStart(text, e + 1)
                 z == LineEnd(text, b)
             IN  << <<SubSeq(text, i, e), SubSeq(text, b, z)>> >>
                 \o finditer_marker(text, z + 1, alts)

MinRecipeContent == 20
MinBlockContent == 100
MaxBlockContent == 500

\* the matches whose trimmed content is longer than min: if len(content) > min
longer_than(matches, min) ==
    SelectSeq(matches, LAMBDA m : Len(strip(m[2])) > min)

\* the sections appended for the matches that passed the test (lines 177-183)
component_sections(kept, pdf_path, page_num) ==
    List([k \in 1..Len(kept) |->
             Section(title_case(strip(kept[k][1])), strip(kept[k][2]),
                     pdf_path, page_num, "recipe_component")])

\* the sections of one marker pattern (the inner loop, lines 171-183)
marker_sections(text, pdf_path, page_num, alts) ==
    component_sections(longer_than(finditer_marker(text, 1, alts), MinRecipeContent),
                       pdf_path, page_num)

recipe_block_words == <<"recipe", "dish", "meal">>

\* [A-Za-z\s]
IsTitleCh(c) == IsAlpha(c) \/ IsSpace(c)

\* ([A-Z][A-Za-z\s]+(?:recipe|dish|meal)) under (?i), matched at i: a letter,
\* at least one letter or white space, and the last of the three words that
\* the run of letters and white space holds (the + is greedy).  The last
\* position of the group, or 0.
BlockTitleEnd(text, i) ==
    IF ~(i >= 1 /\ i <= Len(text) /\ IsAlpha(Ch(text, i))) THEN 0
    ELSE LET stops == {j \in (i + 1)..Len(text) : ~IsTitleCh(Ch(text, j))}
             run   == IF stops = {} THEN Len(text) ELSE SetMin(stops) - 1
             words == {k \in (i + 2)..run :
                          \E n \in 1..Len(recipe_block_words) :
                              LiteralAt(text, k, recipe_block_words[n])}
         IN  IF words = {} THEN 0
             ELSE LET k == SetMax(words)
                      n == CHOOSE n \in 1..Len(recipe_block_words) :
                               LiteralAt(text, k, recipe_block_words[n])
                  IN  k + Len(recipe_block_words[n]) - 1

\* (?=(?:[A-Z][A-Za-z\s]+(?:recipe|dish|meal))|$) at position p
BlockLookahead(text, p) ==
    \/ p = Len(text) + 1
    \/ p = Len(text) /\ Ch(text, p) = "\n"
    \/ BlockTitleEnd(text, p) > 0

\* re.finditer(recipe_block_pattern, text) from position pos on: group 2 is
\* lazy and ends at the first position where the lookahead holds
RECURSIVE finditer_block(_, _)
finditer_block(text, pos) ==
    LET starts == {i \in pos..Len(text) :
                      /\ BlockTitleEnd(text, i) > 0
                      /\ ContentStart(text, BlockTitleEnd(text, i) + 1) <= Len(text)}
    IN  IF starts = {} THEN <<>>
        ELSE LET i == SetMin(starts)
                 e == BlockTitleEnd(text, i)
                 b == ContentStart(text, e + 1)
                 p == SetMin({q \in (b + 1)..(Len(text) + 1) : BlockLookahead(text, q)})
             IN  << <<SubSeq(text, i, e), SubSeq(text, b, p - 1)>> >>
                 \o finditer_block(text, p)

\* the sections appended for the blocks that passed the test (lines 194-200)
complete_recipe_sections(kept, pdf_path, page_num) ==
    List([k \in 1..Len(kept) |->
             Section(strip(kept[k][1]), Prefix(strip(kept[k][2]), MaxBlockContent),
                     pdf_path, page_num, "complete_recipe")])

\* the complete recipe blocks (lines 185-200)
block_sections(text, pdf_path, page_num) ==
    complete_recipe_sections(longer_than(finditer_block(text, 1), MinBlockContent),
                             pdf_path, page_num)

detect_recipe_sections(text, pdf_path, page_num) ==
    marker_sections(text, pdf_path, page_num, recipe_patterns[1])
    \o marker_sections(text, pdf_path, page_num, recipe_patterns[2])
    \o marker_sections(text, pdf_path, page_num, recipe_patterns[3])
    \o marker_sections(text, pdf_path, page_num, recipe_patterns[4])
    \o block_sections(text, pdf_path, page_num)

-----------------------------------------------------------------------------
(* utils/extractor.py: detect_procedural_sections *)

\* step\s+\d+ under (?i) at position i: the last position of the number, or 0
StepNumberEnd(text, i) ==
    IF ~LiteralAt(text, i, "step") THEN 0
    ELSE LET t == SkipSpace(text, i + 4)
             e == DigitsEnd(text, t)
         IN  IF t > i + 4 /\ e >= t THEN e ELSE 0

\* \d+\. at position i: the position of the period, or 0
NumberDotEnd(text, i) ==
    LET e == DigitsEnd(text, i)
    IN  IF e >= i /\ e < Len(text) /\ Ch(text, e + 1) = "." THEN e + 1 ELSE 0

\* [:\-]?\s* read from position i: where the captured content starts
ProcContentStart(text, i) ==
    IF i <= Len(text) /\ Ch(text, i) \in {":", "-"}
    THEN SkipSpace(text, i + 1)
    ELSE SkipSpace(text, i)

\* the lookaheads (?!\s*step\s+\d+) and (?!\s*\d+\.) that end a block of lines
NextStepAhead(text, q) == StepNumberEnd(text, SkipSpace(text, q)) > 0

NextNumberAhead(text, q) == NumberDotEnd(text, SkipSpace(text, q)) > 0

\* [^\n]+(?:\n(?!...)[^\n]+)* read from position b: the last position of the
\* block of lines, which a line that the lookahead rejects, an empty line or
\* the end of the text ends
RECURSIVE BlockEnd(_, _, _)
BlockEnd(text, b, numbered) ==
    LET z == LineEnd(text, b)
    IN  IF /\ z + 2 <= Len(text)
           /\ Ch(text, z + 2) # "\n"
           /\ ~(IF numbered THEN NextNumberAhead(text, z + 2)
                            ELSE NextStepAhead(text, z + 2))
        THEN BlockEnd(text, z + 2, numbered)
        ELSE z

\* re.finditer of the first two procedural patterns from position pos on; a
\* prefix with nothing but white space up to the end of the text captures no
\* content that could pass the length test
RECURSIVE finditer_steps(_, _, _)
finditer_steps(text, pos, numbered) ==
    LET PrefixEnd(i) ==
            IF numbered THEN NumberDotEnd(text, i) ELSE StepNumberEnd(text, i)
        Start(i) ==
            IF numbered THEN SkipSpace(text, PrefixEnd(i) + 1)
            ELSE ProcContentStart(text, PrefixEnd(i) + 1)
        starts == {i \in pos..Len(text) : PrefixEnd(i) > 0 /\ Start(i) <= Len(text)}
    IN  IF starts = {} THEN <<>>
        ELSE LET i == SetMin(starts)
                 b == Start(i)
                 z == BlockEnd(text, b, numbered)
             IN  << <<SubSeq(text, i, b - 1), SubSeq(text, b, z)>> >>
                 \o finditer_steps(text, z + 1, numbered)

sequence_words == <<"first", "second", "third", "finally", "next", "then">>

\* the last position of the sequence word that stands at i, or 0
SequenceWordEnd(text, i) ==
    LET hits == {n \in 1..Len(sequence_words) : LiteralAt(text, i, sequence_words[n])}
    IN  IF hits = {} THEN 0 ELSE i + Len(sequence_words[SetMin(hits)]) - 1

\* re.finditer of the third procedural pattern: the content is the rest of
\* the line, where $ ends the match under re.MULTILINE
RECURSIVE finditer_sequence(_, _)
finditer_sequence(text, pos) ==
    LET starts == {i \in pos..Len(text) :
                      /\ SequenceWordEnd(text, i) > 0
                      /\ ProcContentStart(text, SequenceWordEnd(text, i) + 1) <= Len(text)}
    IN  IF starts = {} THEN <<>>
        ELSE LET i == SetMin(starts)
                 e == SequenceWordEnd(text, i)
                 b == ProcContentStart(text, e + 1)
                 z == LineEnd(text, b)
             IN  << <<SubSeq(text, i, e), SubSeq(text, b, z)>> >>
                 \o finditer_sequence(text, z + 1)

MinProcContent == 30

\* the sections appended for the matches that passed the test (lines 224-230)
procedure_sections(kept, pdf_path, page_num) ==
    List([k \in 1..Len(kept) |->
             Section("Procedure: " \o strip(kept[k][1]), strip(kept[k][2]),
                     pdf_path, page_num, "procedural")])

\* the sections of the matches of one procedural pattern (lines 217-230)
procedural_sections(matches, pdf_path, page_num) ==
    procedure_sections(longer_than(matches, MinProcContent), pdf_path, page_num)

detect_procedural_sections(text, pdf_path, page_num) ==
    procedural_sections(finditer_steps(text, 1, FALSE), pdf_path, page_num)
    \o procedural_sections(finditer_steps(text, 1, TRUE), pdf_path, page_num)
    \o procedural_sections(finditer_sequence(text, 1), pdf_path, page_num)

-----------------------------------------------------------------------------
(* utils/extractor.py: create_content_blocks and parse_page_content *)

\* re.split(r'[.!?]+', text): the pieces between the runs of marks
split_sentences(text) ==
    LET marks  == {".", "!", "?"}
        IsMark(i) == Ch(text, i) \in marks
        starts == Ascending({i \in 1..Len(text) :
                      IsMark(i) /\ (i = 1 \/ ~IsMark(i - 1))})
        ends   == Ascending({i \in 1..Len(text) :
                      IsMark(i) /\ (i = Len(text) \/ ~IsMark(i + 1))})
    IN  List([k \in 1..(Len(starts) + 1) |->
                 SubSeq(text,
                        IF k = 1 THEN 1 ELSE ends[k - 1] + 1,
                        IF k > Len(starts) THEN Len(text) ELSE starts[k] - 1)])

MinBlockWords == 150
MaxBlockTitle == 50

\* the section made of the sentences of one block
content_block(current_block, block_count, pdf_path, page_num) ==
    LET block_text == join(". ", current_block) \o "."
        first == current_block[1]
        title == IF Len(first) > MaxBlockTitle
                 THEN Prefix(first, MaxBlockTitle) \o "..." ELSE first
    IN  Section("Content Block " \o ToString(block_count) \o ": " \o title,
                block_text, pdf_path, page_num, "content_block")

\* the loop over the sentences (lines 247-270) and the rest behind it
RECURSIVE block_loop(_, _, _, _, _, _)
block_loop(sentences, k, current_block, sections, pdf_path, page_num) ==
    IF k > Len(sentences)
    THEN IF Len(current_block) > 0
         THEN Append(sections,
                     content_block(current_block, Len(sections) + 1, pdf_path, page_num))
         ELSE sections
    ELSE LET sentence == strip(sentences[k])
             grown == Append(current_block, sentence)
         IN  IF sentence = ""
             THEN block_loop(sentences, k + 1, current_block, sections, pdf_path, page_num)
             ELSE IF Len(split(join(" ", grown))) >= MinBlockWords
             THEN block_loop(sentences, k + 1, <<>>,
                      Append(sections,
                             content_block(grown, Len(sections) + 1, pdf_path, page_num)),
                      pdf_path, page_num)
             ELSE block_loop(sentences, k + 1, grown, sections, pdf_path, page_num)

\* a block maker that forgets the partial block left at the end of the page
create_content_blocks_without_flush(text, pdf_path, page_num) ==
    LET blocks == block_loop(split_sentences(text), 1, <<>>, <<>>, pdf_path, page_num)
        n == Len(blocks)
    IN  IF n > 0 /\ Len(split(blocks[n].section_text)) < MinBlockWords
        THEN SubSeq(blocks, 1, n - 1)
        ELSE blocks

create_content_blocks(text, pdf_path, page_num) ==
    block_loop(split_sentences(text), 1, <<>>, <<>>, pdf_path, page_num)

\* the three structured strategies on the cleaned text, in the order of the
\* calls (lines 62-64)
structured_sections(cleaned, pdf_path, page_num) ==
    detect_heading_sections(cleaned, pdf_path, page_num)
    \o detect_recipe_sections(cleaned, pdf_path, page_num)
    \o detect_procedural_sections(cleaned, pdf_path, page_num)

\* if not sections: sections = create_content_blocks(cleaned_text, ...)
\* (lines 67-68)
or_content_blocks(sections, cleaned, pdf_path, page_num) ==
    IF Len(sections) = 0
    THEN create_content_blocks(cleaned, pdf_path, page_num)
    ELSE sections

\* the body of parse_page_content behind the normalization (lines 62-70)
parse_cleaned(cleaned, pdf_path, page_num) ==
    or_content_blocks(structured_sections(cleaned, pdf_path, page_num),
                      cleaned, pdf_path, page_num)

\* a page parser that adds the content blocks to whatever was found
parse_page_content_always_blocks(text, pdf_path, page_num) ==
    parse_cleaned(normalize_text(text), pdf_path, page_num)
    \o (IF Len(structured_sections(normalize_text(text), pdf_path, page_num)) = 0
        THEN <<>>
        ELSE create_content_blocks(normalize_text(text), pdf_path, page_num))

parse_page_content(text, pdf_path, page_num) ==
    parse_cleaned(normalize_text(text), pdf_path, page_num)

-----------------------------------------------------------------------------
(* utils/extractor.py: extract_sections, over the pages of one PDF *)

\* os.path.join(dir, name), for a relative name
PathJoin(dir, name) == dir \o "/" \o name

LongWords ==
    Rep("a", 40) \o " " \o Rep("b", 40) \o " " \o Rep("c", 40) \o " " \o
    Rep("d", 40) \o " " \o Rep("e", 40) \o " " \o Rep("f", 40) \o " " \o
    Rep("g", 40) \o " " \o Rep("h", 40) \o " " \o Rep("i", 40) \o " " \o
    Rep("j", 40) \o " " \o Rep("k", 40) \o " " \o Rep("l", 40) \o " " \o
    Rep("m", 40) \o " " \o Rep("n", 40) \o " " \o Rep("o", 40) \o " " \o
    Rep("p", 40) \o " " \o Rep("q", 40) \o " " \o Rep("r", 40) \o " " \o
    Rep("s", 40) \o " " \o Rep("t", 40) \o " " \o Rep("u", 40) \o " " \o
    Rep("v", 40) \o " " \o Rep("w", 40) \o " " \o Rep("x", 40) \o " " \o
    Rep("y", 40) \o " " \o Rep("z", 40)

\* The text page.extract_text() returns for the kinds of page the documents
\* hold.  A "blank" page holds white space only; reading a "broken" page
\* raises.
PageText(kind) ==
    CASE kind = "recipes" ->
           "Serves: a dozen guests\nIngredients: rice and vegetarian stock\n"
           \o "Step 1: prepare the food for the buffet\n"
           \o "Prep time: 10 20 30 40 50 60 70 80"
      [] kind = "long"   -> "Method: " \o Prefix(LongWords, MaxTextLen)
      [] kind = "longer" -> "Method: " \o Prefix(LongWords, MaxTextLen + 1)
      [] kind = "short"  -> "Buffet menu ideas"
      [] kind = "pair"   -> "Ingredients: rice and vegetarian stock\n"
                            \o "Method: mix the food and serve the menu"
      [] kind = "tiny"   -> "Hello"
      [] OTHER -> " \n "

\* What parse_page_content returns for PageText(kind): the (title, text, type)
\* of each section, in the order the strategies append them.
PageSections(kind) ==
    LET recipes == "rice and vegetarian stock Step 1: prepare the food for the buffet "
                   \o "Prep time: 10 20 30 40 50 60 70 80"
    IN  CASE kind = "recipes" ->
               << <<"Ingredients", recipes, "recipe_component">>,
                  <<"Serves", "a dozen guests Ingredients: " \o recipes, "recipe_component">>,
                  <<"Prep Time", "10 20 30 40 50 60 70 80", "recipe_component">>,
                  <<"Procedure: Step 1:",
                    "prepare the food for the buffet Prep time: 10 20 30 40 50 60 70 80",
                    "procedural">> >>
          [] kind = "long" ->
               << <<"Method", Prefix(LongWords, MaxTextLen), "recipe_component">> >>
          [] kind = "longer" ->
               << <<"Method", Prefix(LongWords, MaxTextLen + 1), "recipe_component">> >>
          [] kind = "short" ->
               << <<"Content Block 1: Buffet menu ideas", "Buffet menu ideas.",
                    "content_block">> >>
          [] kind = "pair" ->
               << <<"Ingredients",
                    "rice and vegetarian stock Method: mix the food and serve the menu",
                    "recipe_component">>,
                  <<"Method", "mix the food and serve the menu", "recipe_component">> >>
          [] kind = "tiny" ->
               << <<"Content Block 1: Hello", "Hello.", "content_block">> >>
          [] OTHER -> <<>>

\* The page kinds of a document, page by page.
Layouts == {"cookbook", "report", "notes"}

PageKind(layout, page_num) ==
    CASE layout = "cookbook" -> "recipes"
      [] layout = "notes" -> IF page_num = 1 THEN "short"
                             ELSE IF page_num = 2 THEN "pair"
                             ELSE "tiny"
      [] OTHER -> IF page_num = 1 THEN "long"
                  ELSE IF page_num = 2 THEN "blank"
                  ELSE IF page_num = 3 THEN "broken"
                  ELSE "longer"

\* parse_page_content(page_text, pdf_path, page_num) for a page of that kind
page_sections(kind, pdf_path, page_num) ==
    LET found == PageSections(kind)
    IN  List([k \in 1..Len(found) |->
                 Section(found[k][1], found[k][2], pdf_path, page_num, found[k][3])])

\* a loop that a raising page ends: the pages behind it are not processed
RECURSIVE extract_pages_until_error(_, _, _)
extract_pages_until_error(pdf, pdf_path, upto) ==
    IF upto = 0 THEN <<>>
    ELSE LET kind == PageKind(pdf.layout, upto)
             rest == extract_pages_until_error(pdf, pdf_path, upto - 1)
         IN  IF \E p \in 1..upto : PageKind(pdf.layout, p) = "broken" THEN rest
             ELSE IF strip(PageText(kind)) = "" THEN rest
             ELSE rest \o page_sections(kind, pdf_path, upto)

\* the loop over pdf_reader.pages: a page without text is skipped, and so is
\* a page whose processing raises
RECURSIVE extract_pages(_, _, _)
extract_pages(pdf, pdf_path, upto) ==
    IF upto = 0 THEN <<>>
    ELSE LET kind == PageKind(pdf.layout, upto)
             rest == extract_pages(pdf, pdf_path, upto - 1)
         IN  IF kind = "broken" \/ strip(PageText(kind)) = "" THEN rest
             ELSE rest \o page_sections(kind, pdf_path, upto)

\* pdf: [readable, layout, pages]; a file that cannot be read gives []
extract_sections(pdf, pdf_path) ==
    IF ~pdf.readable THEN <<>> ELSE extract_pages(pdf, pdf_path, pdf.pages)

-----------------------------------------------------------------------------
(* The batch drivers and the callers of rank_sections *)

MaxPages == 4

\* the PDF files a document name can stand for: a cookbook of up to MaxPages
\* pages, a four-page report, three pages of notes, a file that cannot be read
Pdfs ==
    {[readable |-> TRUE, layout |-> "cookbook", pages |-> n] : n \in 1..MaxPages}
    \cup {[readable |-> TRUE, layout |-> "report", pages |-> 4],
          [readable |-> TRUE, layout |-> "notes", pages |-> 3],
          [readable |-> FALSE, layout |-> "cookbook", pages |-> 0]}

\* input_data['documents'] of run_collection.py: the filenames, each relative
\* to the PDFs directory
DocumentLists == { << "a.pdf" >>, << "a.pdf", "sub/b.pdf" >> }
pdf_dir == "Collection 1/PDFs"

\* glob.glob(os.path.join(input_dir, '*.pdf')) of hackathon_main.py
PdfFileLists == { << "/app/input/a.pdf" >> }

\* the persona and task of a run: the default of hackathon_main.py, and the
\* catering scenario
Queries ==
    { <<"AI Document Analyst",
        "Use BERT to analyze and rank document sections by semantic relevance">>,
      <<"Food Contractor",
        "Prepare a vegetarian buffet for a corporate gathering">> }

\* test_bert_ranking: the mock sections handed to rank_sections directly
test_sections ==
    << [document |-> "test.pdf", section_title |-> "Vegetarian Pasta Recipe",
        section_text |-> "This delicious vegetarian pasta dish is perfect for corporate catering events. Made with fresh vegetables and available in gluten-free options. Serves 10-12 people.",
        page_number |-> 1, section_type |-> "recipe_component"],
       [document |-> "test.pdf", section_title |-> "Chicken Curry Recipe",
        section_text |-> "A spicy chicken curry recipe with traditional Indian spices. Takes 45 minutes to prepare and serves 8 people. Not suitable for vegetarian diets.",
        page_number |-> 2, section_type |-> "recipe_component"],
       [document |-> "test.pdf", section_title |-> "Corporate Event Planning Guide",
        section_text |-> "Guidelines for organizing corporate gatherings including venue selection, catering options, and scheduling considerations for business events.",
        page_number |-> 3, section_type |-> "procedural"] >>

\* the lists a caller of rank_sections passes: the mock list, and every list
\* of at most two of its sections (in any order, repeats included)
DirectInputs ==
    {<<>>, test_sections}
    \cup {<<test_sections[i]>> : i \in 1..3}
    \cup {<<test_sections[i], test_sections[j]>> : i, j \in 1..3}

\* for sec in sections: sec['document'] = name
set_document(sections, name) ==
    List([k \in 1..Len(sections) |-> [sections[k] EXCEPT !.document = name]])

Init ==
    /\ driver \in {"collection", "hackathon", "direct"}
    /\ documents \in (CASE driver = "collection" -> DocumentLists
                        [] driver = "hackathon" -> PdfFileLists
                        [] OTHER -> {<<>>})
    /\ pc = "extract"
    /\ docs_done = 0
    /\ all_sections = <<>>
    /\ created = <<>>
    /\ \E q \in Queries : persona = q[1] /\ job = q[2]
    /\ _tokenizer = "None"
    /\ _model = "None"
    /\ _model_initialized = FALSE
    /\ filtered_sections = <<>>
    /\ expanded_terms = {}
    /\ baseline = <<>>
    /\ similarities = <<>>
    /\ ranked_sections = <<>>
    /\ subsection_analysis = <<>>
    /\ rank_outcome = "not_called"
    /\ page_text = ""
    /\ cleaned_text = ""
    /\ renormalized_text = ""
    /\ calls = 0
    /\ tokenizer_loads = 0
    /\ model_loads = 0
    /\ hash_seed = "salt_a"   \* one interpreter; the salts are compared under SpecQuery
    /\ query_keywords = <<>>
    /\ enhanced_query = ""
    /\ previous_query = ""
    /\ extracted = <<>>

page_vars == <<page_text, cleaned_text, renormalized_text>>

query_vars == <<hash_seed, previous_query>>

rank_vars == <<_tokenizer, _model, _model_initialized, filtered_sections,
               expanded_terms, baseline, similarities, ranked_sections,
               subsection_analysis, rank_outcome, calls, tokenizer_loads,
               model_loads, query_keywords, enhanced_query>>

\* what the drivers' loops leave alone
loop_frame == <<driver, documents, pc, persona, job, rank_vars, page_vars, query_vars>>

\* run_collection.py, one iteration of the loop over input_data['documents']
\* (lines 66-81)
ProcessCollectionDocument ==
    /\ driver = "collection"
    /\ pc = "extract"
    /\ docs_done < Len(documents)
    /\ \E exists \in BOOLEAN, pdf \in Pdfs :
          LET filename == documents[docs_done + 1]
              pdf_path == PathJoin(pdf_dir, filename)
              sections == extract_sections(pdf, pdf_path)
          IN  IF exists
              THEN /\ created' = created \o sections
                   /\ all_sections' = all_sections \o set_document(sections, filename)
                   /\ extracted' = Append(extracted,
                          [pdf |-> pdf, pdf_path |-> pdf_path, sections |-> sections])
              ELSE UNCHANGED <<created, all_sections, extracted>>
    /\ docs_done' = docs_done + 1
    /\ UNCHANGED loop_frame

\* hackathon_main.py, one iteration of the loop over pdf_files (lines 79-109)
ProcessHackathonDocument ==
    /\ driver = "hackathon"
    /\ pc = "extract"
    /\ docs_done < Len(documents)
    /\ \E pdf \in Pdfs :
          LET pdf_path == documents[docs_done + 1]
              filename == PathName(pdf_path)
              sections == extract_sections(pdf, pdf_path)
          IN  /\ created' = created \o sections
              /\ all_sections' = all_sections \o set_document(sections, filename)
              /\ extracted' = Append(extracted,
                     [pdf |-> pdf, pdf_path |-> pdf_path, sections |-> sections])
    /\ docs_done' = docs_done + 1
    /\ UNCHANGED loop_frame

\* the call rank_sections(sections, persona, job) and its effect
CallRankSections(sections) ==
    \E out \in rank_sections(sections, persona, job) :
        /\ _tokenizer' = out.tok
        /\ _model' = out.mdl
        /\ _model_initialized' = out.init
        /\ filtered_sections' = out.filtered
        /\ query_keywords' = out.keywords
        /\ expanded_terms' = out.expanded
        /\ enhanced_query' = out.query
        /\ baseline' = out.baseline
        /\ similarities' = out.sims
        /\ ranked_sections' = out.ranked
        /\ subsection_analysis' = out.analysis
        /\ rank_outcome' = out.exit
        /\ calls' = calls + 1
        /\ tokenizer_loads' = tokenizer_loads + out.tok_loaded
        /\ model_loads' = model_loads + out.mdl_loaded

\* both drivers, after the loop (run_collection.py lines 83-132,
\* hackathon_main.py lines 111-159): no ranking without a section
RankExtracted ==
    /\ driver \in {"collection", "hackathon"}
    /\ pc = "extract"
    /\ docs_done = Len(documents)
    /\ IF Len(all_sections) = 0
       THEN UNCHANGED rank_vars
       ELSE CallRankSections(all_sections)
    /\ pc' = "done"
    /\ UNCHANGED <<driver, documents, docs_done, all_sections, created, persona,
                   job, page_vars, query_vars, extracted>>

\* a caller that hands its own sections to rank_sections, as
\* test_bert_ranking does (lines 446-455)
RankDirect ==
    /\ driver = "direct"
    /\ pc = "extract"
    /\ \E sections \in DirectInputs :
          /\ all_sections' = sections
          /\ created' = sections
          /\ CallRankSections(sections)
    /\ pc' = "done"
    /\ UNCHANGED <<driver, documents, docs_done, persona, job, page_vars, query_vars, extracted>>

Next ==
    \/ ProcessCollectionDocument
    \/ ProcessHackathonDocument
    \/ RankExtracted
    \/ RankDirect

Spec == Init /\ [][Next]_vars

-----------------------------------------------------------------------------
(* apply_persona_boosting on its own: one call over a vector of baseline
   similarities, the sections they belong to, and a list of expanded keywords *)

\* baseline similarities in hundredths: cosine similarities lie in [-1, 1]
Baselines == {-100, -50, -1, 0, 1, 50, 100}

\* sections of one type whose keyword matches grow along the list
BoostSections(type) ==
    << Section("Notes", "plain words in a row", "a.pdf", 1, type),
       Section("Food notes", "plain words in a row", "a.pdf", 1, type),
       Section("Food notes", "food and rice in a row", "a.pdf", 1, type),
       Section("Food rice stock", "food with rice and stock", "a.pdf", 1, type) >>

BoostTypes == {"recipe_component", "procedural", "content_block"}

BoostKeywords ==
    { {},
      {"food"},
      {"food", "rice", "stock"},
      {"seafood", "planning"},
      expand_query_semantically(
          extract_dynamic_persona_keywords("Food Contractor",
              "Prepare a vegetarian buffet-style dinner menu")) }

InitBoost ==
    /\ driver = "boost"
    /\ documents = <<>>
    /\ pc = "scored"
    /\ docs_done = 0
    /\ \E type \in BoostTypes : all_sections = BoostSections(type)
    /\ created = all_sections
    /\ persona = ""
    /\ job = ""
    /\ _tokenizer = "None"
    /\ _model = "None"
    /\ _model_initialized = FALSE
    /\ filtered_sections = all_sections
    /\ expanded_terms \in BoostKeywords
    /\ \E b \in Baselines : baseline = [i \in 1..Len(all_sections) |-> b]
    /\ similarities = <<>>
    /\ ranked_sections = <<>>
    /\ subsection_analysis = <<>>
    /\ rank_outcome = "not_called"
    /\ page_text = ""
    /\ cleaned_text = ""
    /\ renormalized_text = ""
    /\ calls = 0
    /\ tokenizer_loads = 0
    /\ model_loads = 0
    /\ hash_seed = "salt_a"
    /\ query_keywords = <<>>
    /\ enhanced_query = ""
    /\ previous_query = ""
    /\ extracted = <<>>

\* boosted_similarities = apply_persona_boosting(similarities,
\* filtered_sections, expanded_keywords) (ranker.py line 221)
ApplyPersonaBoosting ==
    /\ driver = "boost"
    /\ pc = "scored"
    /\ similarities' = apply_persona_boosting(baseline, filtered_sections, expanded_terms)
    /\ pc' = "boosted"
    /\ UNCHANGED <<driver, documents, docs_done, all_sections, created, persona,
                   job, _tokenizer, _model, _model_initialized, filtered_sections,
                   expanded_terms, baseline, ranked_sections, subsection_analysis,
                   rank_outcome, page_vars, calls, tokenizer_loads, model_loads,
                   query_vars, query_keywords, enhanced_query, extracted>>

NextBoost == ApplyPersonaBoosting

SpecBoost == InitBoost /\ [][NextBoost]_vars

-----------------------------------------------------------------------------
(* parse_page_content on one page: normalize_text and detect_recipe_sections *)

MaxPageLen == 4

PageAlphabet == {"a", "B", "1", ".", " ", "\n"}

\* every string over the alphabet of at most n characters
RECURSIVE StringsUpTo(_)
StringsUpTo(n) ==
    IF n = 0 THEN {""}
    ELSE LET shorter == StringsUpTo(n - 1)
         IN  shorter \cup {t \o c : t \in shorter, c \in PageAlphabet}

ScenarioPage == "INGREDIENTS: flour, sugar\nINSTRUCTIONS: mix and bake"

PageTexts ==
    StringsUpTo(MaxPageLen)
    \cup {ScenarioPage, PageText("recipes"), PageText("pair"), PageText("short")}

InitPage ==
    /\ driver = "page"
    /\ documents = << "/app/input/a.pdf" >>
    /\ pc = "page"
    /\ docs_done = 0
    /\ all_sections = <<>>
    /\ created = <<>>
    /\ persona = ""
    /\ job = ""
    /\ _tokenizer = "None"
    /\ _model = "None"
    /\ _model_initialized = FALSE
    /\ filtered_sections = <<>>
    /\ expanded_terms = {}
    /\ baseline = <<>>
    /\ similarities = <<>>
    /\ ranked_sections = <<>>
    /\ subsection_analysis = <<>>
    /\ rank_outcome = "not_called"
    /\ page_text \in PageTexts
    /\ cleaned_text = ""
    /\ renormalized_text = ""
    /\ calls = 0
    /\ tokenizer_loads = 0
    /\ model_loads = 0
    /\ hash_seed = "salt_a"
    /\ query_keywords = <<>>
    /\ enhanced_query = ""
    /\ previous_query = ""
    /\ extracted = <<>>

page_frame == <<driver, documents, docs_done, all_sections, persona, job,
                rank_vars, page_text, query_vars, extracted>>

\* cleaned_text = normalize_text(text) (extractor.py line 59)
NormalizePage ==
    /\ driver = "page"
    /\ pc = "page"
    /\ cleaned_text' = normalize_text(page_text)
    /\ pc' = "cleaned"
    /\ UNCHANGED <<page_frame, created, renormalized_text>>

\* sections.extend(detect_recipe_sections(cleaned_text, pdf_path, page_num))
\* (extractor.py line 63)
DetectRecipeSections ==
    /\ driver = "page"
    /\ pc = "cleaned"
    /\ created' = detect_recipe_sections(cleaned_text, documents[1], 1)
    /\ pc' = "detected"
    /\ UNCHANGED <<page_frame, cleaned_text, renormalized_text>>

\* normalize_text called on text that normalize_text returned
NormalizeAgain ==
    /\ driver = "page"
    /\ pc = "cleaned"
    /\ renormalized_text' = normalize_text(cleaned_text)
    /\ pc' = "renormalized"
    /\ UNCHANGED <<page_frame, created, cleaned_text>>

NextPage ==
    \/ NormalizePage
    \/ DetectRecipeSections
    \/ NormalizeAgain

SpecPage == InitPage /\ [][NextPage]_vars

-----------------------------------------------------------------------------
(* parse_page_content (extractor.py lines 46-72) on one page text *)

\* a run of letters that holds no marker, step or sequence word, and that
\* normalize_text leaves as it is
FillerText == Rep("abcdefghij", 11)

Filler(n) == Prefix(FillerText, n)

\* the lengths of content around a minimum length
Around(min) == (min - 1)..(min + 1)

\* pages whose one match captures a content of a chosen length
ThresholdPages ==
    {"Ingredients: " \o Filler(n) : n \in Around(MinRecipeContent)}
    \cup {"Step 1: " \o Filler(n) : n \in Around(MinProcContent)}
    \cup {"Vegetable dish: " \o Filler(n) : n \in Around(MinBlockContent)}

ParseFragments ==
    {"Ingredients: rice and vegetarian stock",
     "Method: mix the food and serve the menu for the guests",
     "Step 1: chop the onions finely and then fry them in the pan",
     "1. Preheat the oven to 180 and wait a long while.",
     "Finally, serve the buffet to the corporate gathering warm",
     "Buffet Menu Ideas",
     "INGREDIENTS LIST",
     "Serves: 4",
     "Lentil soup recipe: " \o FillerText,
     "hello world this is text. and more! is it?",
     " "}

\* a page without structure, long enough for more than one content block
PlainPage ==
    join(" ", [k \in 1..(MinBlockWords + 10) |-> "plain"]) \o ". the rest of it"

ParseTexts ==
    ParseFragments
    \cup {a \o "\n" \o b : a, b \in ParseFragments}
    \cup ThresholdPages
    \cup {PlainPage, "", "Hello"}

InitParse ==
    /\ driver = "parse"
    /\ documents = << "Collection 1/PDFs/sub/b.pdf" >>
    /\ pc = "page"
    /\ docs_done = 0
    /\ all_sections = <<>>
    /\ created = <<>>
    /\ persona = ""
    /\ job = ""
    /\ _tokenizer = "None"
    /\ _model = "None"
    /\ _model_initialized = FALSE
    /\ filtered_sections = <<>>
    /\ expanded_terms = {}
    /\ baseline = <<>>
    /\ similarities = <<>>
    /\ ranked_sections = <<>>
    /\ subsection_analysis = <<>>
    /\ rank_outcome = "not_called"
    /\ page_text \in ParseTexts
    /\ cleaned_text = ""
    /\ renormalized_text = ""
    /\ calls = 0
    /\ tokenizer_loads = 0
    /\ model_loads = 0
    /\ hash_seed = "salt_a"
    /\ query_keywords = <<>>
    /\ enhanced_query = ""
    /\ previous_query = ""
    /\ extracted = <<>>

\* page_sections = parse_page_content(page_text, pdf_path, page_num + 1)
\* (extractor.py line 32); cleaned_text is the local of line 59
ParsePage ==
    /\ driver = "parse"
    /\ pc = "page"
    /\ cleaned_text' = normalize_text(page_text)
    /\ created' = parse_page_content(page_text, documents[1], 1)
    /\ pc' = "parsed"
    /\ UNCHANGED <<page_frame, renormalized_text>>

NextParse == ParsePage

SpecParse == InitParse /\ [][NextParse]_vars

-----------------------------------------------------------------------------
(* filter_sections_for_bert (ranker.py lines 241-268) on one list of sections *)

\* the kinds of section a list holds: "good" passes the primary pass, "weak"
\* (a title of 2, a text of 15 characters), "noisy" (mostly digits) and
\* "long" (more than 1000 characters) pass the relaxed pass only, "bad"
\* passes neither
KindSection(kind, k) ==
    CASE kind = "good"  -> Section("Lentil soup", "Cook the lentils slowly with onions and herbs",
                                   "a.pdf", k, "recipe_component")
      [] kind = "weak"  -> Section("Ab", "short text here", "a.pdf", k, "content_block")
      [] kind = "noisy" -> Section("Table", "12 34 56 78 90 12 34 56 78 90", "a.pdf", k,
                                   "content_block")
      [] kind = "long"  -> Section("Method", Prefix(LongWords, MaxTextLen + 1), "a.pdf", k,
                                   "recipe_component")
      [] OTHER          -> Section("A", "tiny", "a.pdf", k, "content_block")

\* the largest number of relaxed-only sections in a list
MaxRelaxedOnly == 22

\* the largest number of primary survivors in a list
MaxGood == 6

\* a list of `good` primary survivors and `extra` other sections, numbered by
\* their place; the others cycle through weak, noisy, bad and long
FilterInput(good, extra, layout) ==
    LET others == <<"weak", "noisy", "bad", "long", "weak", "weak">>
        Other(j) == others[((j - 1) % Len(others)) + 1]
        KindAt(k) ==
            CASE layout = "good_first" ->
                     IF k <= good THEN "good" ELSE Other(k - good)
              [] layout = "good_last" ->
                     IF k <= extra THEN Other(k) ELSE "good"
              [] OTHER ->
                     IF k % 2 = 0 /\ k \div 2 <= good THEN "good"
                     ELSE IF k > 2 * good THEN Other(k - good)
                     ELSE Other((k + 1) \div 2)
    IN  List([k \in 1..(good + extra) |-> KindSection(KindAt(k), k)])

FilterInputs ==
    {FilterInput(good, extra, layout) :
        good \in 0..MaxGood, extra \in {0, 1, 3, 5, MaxRelaxedOnly - 2, MaxRelaxedOnly},
        layout \in {"good_first", "good_last", "mixed"}}
    \cup {List([k \in 1..n |-> KindSection("bad", k)]) : n \in 1..3}

InitFilter ==
    /\ driver = "filter"
    /\ documents = <<>>
    /\ pc = "sections"
    /\ docs_done = 0
    /\ all_sections \in FilterInputs
    /\ created = all_sections
    /\ persona = ""
    /\ job = ""
    /\ _tokenizer = "None"
    /\ _model = "None"
    /\ _model_initialized = FALSE
    /\ filtered_sections = <<>>
    /\ expanded_terms = {}
    /\ baseline = <<>>
    /\ similarities = <<>>
    /\ ranked_sections = <<>>
    /\ subsection_analysis = <<>>
    /\ rank_outcome = "not_called"
    /\ page_text = ""
    /\ cleaned_text = ""
    /\ renormalized_text = ""
    /\ calls = 0
    /\ tokenizer_loads = 0
    /\ model_loads = 0
    /\ hash_seed = "salt_a"
    /\ query_keywords = <<>>
    /\ enhanced_query = ""
    /\ previous_query = ""
    /\ extracted = <<>>

\* filtered_sections = filter_sections_for_bert(sections) (ranker.py line 189)
FilterSections ==
    /\ driver = "filter"
    /\ pc = "sections"
    /\ filtered_sections' = filter_sections_for_bert(all_sections)
    /\ pc' = "filtered"
    /\ UNCHANGED <<driver, documents, docs_done, all_sections, created, persona,
                   job, _tokenizer, _model, _model_initialized, expanded_terms,
                   baseline, similarities, ranked_sections, subsection_analysis,
                   rank_outcome, page_vars, calls, tokenizer_loads, model_loads,
                   query_vars, query_keywords, enhanced_query, extracted>>

NextFilter == FilterSections

SpecFilter == InitFilter /\ [][NextFilter]_vars

-----------------------------------------------------------------------------
(* create_content_blocks (extractor.py lines 234-284) on one cleaned text *)

\* a sentence of n words and the mark that ends it; no words, a mark alone
Sentence(n, mark) == join(" ", [k \in 1..n |-> "ab"]) \o mark

\* the numbers of words of the sentences: none, few, and around the block size
SentenceWords ==
    {0, 1, MinBlockWords \div 2, MinBlockWords \div 2 + 5,
     MinBlockWords - 1, MinBlockWords}

\* cleaned texts of three sentences
BlockTexts ==
    {Sentence(a, ". ") \o Sentence(b, "! ") \o Sentence(c, "?") :
        a, b, c \in SentenceWords}
    \cup {"", "no mark at the end", PlainPage}

InitBlocks ==
    /\ driver = "blocks"
    /\ documents = << "Collection 1/PDFs/sub/b.pdf" >>
    /\ pc = "cleaned"
    /\ docs_done = 0
    /\ all_sections = <<>>
    /\ created = <<>>
    /\ persona = ""
    /\ job = ""
    /\ _tokenizer = "None"
    /\ _model = "None"
    /\ _model_initialized = FALSE
    /\ filtered_sections = <<>>
    /\ expanded_terms = {}
    /\ baseline = <<>>
    /\ similarities = <<>>
    /\ ranked_sections = <<>>
    /\ subsection_analysis = <<>>
    /\ rank_outcome = "not_called"
    /\ page_text = ""
    /\ cleaned_text \in BlockTexts
    /\ renormalized_text = ""
    /\ calls = 0
    /\ tokenizer_loads = 0
    /\ model_loads = 0
    /\ hash_seed = "salt_a"
    /\ query_keywords = <<>>
    /\ enhanced_query = ""
    /\ previous_query = ""
    /\ extracted = <<>>

\* sections = create_content_blocks(cleaned_text, pdf_path, page_num)
\* (extractor.py line 68)
CreateContentBlocks ==
    /\ driver = "blocks"
    /\ pc = "cleaned"
    /\ created' = create_content_blocks(cleaned_text, documents[1], 1)
    /\ pc' = "blocked"
    /\ UNCHANGED <<page_frame, cleaned_text, renormalized_text>>

NextBlocks == CreateContentBlocks

SpecBlocks == InitBlocks /\ [][NextBlocks]_vars

-----------------------------------------------------------------------------
(* The query construction of rank_sections (lines 198-206), run twice on the
   same persona and job, each run in an interpreter of its own *)

QueryPersonas ==
    {"Food Contractor", "AI Document Analyst", "HR professional",
     "Travel Planner, 2nd_class", ""}

QueryJobs ==
    {"Prepare a vegetarian buffet for a corporate gathering",
     "Use BERT to analyze and rank document sections by semantic relevance",
     "Plan a trip of 4 days for a group of 10 college friends: plan the food, the menu, the hotels, the route, the budget and create a daily schedule",
     "Create and manage fillable forms for onboarding and compliance",
     "the and for a to"}

InitQuery ==
    /\ driver = "query"
    /\ documents = <<>>
    /\ pc = "first"
    /\ docs_done = 0
    /\ all_sections = <<>>
    /\ created = <<>>
    /\ persona \in QueryPersonas
    /\ job \in QueryJobs
    /\ _tokenizer = "None"
    /\ _model = "None"
    /\ _model_initialized = FALSE
    /\ filtered_sections = <<>>
    /\ expanded_terms = {}
    /\ baseline = <<>>
    /\ similarities = <<>>
    /\ ranked_sections = <<>>
    /\ subsection_analysis = <<>>
    /\ rank_outcome = "not_called"
    /\ page_text = ""
    /\ cleaned_text = ""
    /\ renormalized_text = ""
    /\ calls = 0
    /\ tokenizer_loads = 0
    /\ model_loads = 0
    /\ hash_seed = "salt_a"
    /\ query_keywords = <<>>
    /\ enhanced_query = ""
    /\ previous_query = ""
    /\ extracted = <<>>

\* one run of lines 198-206 in a new interpreter, which draws its hash salt
BuildQuery ==
    /\ driver = "query"
    /\ pc \in {"first", "second"}
    /\ \E seed \in HashSeeds :
          LET keywords == extract_dynamic_persona_keywords(persona, job)
              expanded == expand_query_semantically(keywords)
          IN  /\ hash_seed' = seed
              /\ query_keywords' = keywords
              /\ expanded_terms' = expanded
              /\ enhanced_query' =
                     build_enhanced_query(persona, job, list_of_set(expanded, seed))
    /\ previous_query' = enhanced_query
    /\ pc' = IF pc = "first" THEN "second" ELSE "done"
    /\ UNCHANGED <<driver, documents, docs_done, all_sections, created, persona,
                   job, _tokenizer, _model, _model_initialized, filtered_sections,
                   baseline, similarities, ranked_sections, subsection_analysis,
                   rank_outcome, page_vars, calls, tokenizer_loads, model_loads,
                   extracted>>

NextQuery == BuildQuery

SpecQuery == InitQuery /\ [][NextQuery]_vars

-----------------------------------------------------------------------------
(* One process that calls rank_sections and initialize_bert_model again and
   again: run_collection.py --all ranks one collection after the other *)

MaxCalls == 3

\* the sections of the collections: none that pass the filter, or rankable ones
CollectionSections == { SubSeq(test_sections, 1, 1), test_sections }

InitProcess ==
    /\ driver = "process"
    /\ documents = <<>>
    /\ pc = "extract"
    /\ docs_done = 0
    /\ all_sections = <<>>
    /\ created = <<>>
    /\ \E q \in Queries : persona = q[1] /\ job = q[2]
    /\ _tokenizer = "None"
    /\ _model = "None"
    /\ _model_initialized = FALSE
    /\ filtered_sections = <<>>
    /\ expanded_terms = {}
    /\ baseline = <<>>
    /\ similarities = <<>>
    /\ ranked_sections = <<>>
    /\ subsection_analysis = <<>>
    /\ rank_outcome = "not_called"
    /\ page_text = ""
    /\ cleaned_text = ""
    /\ renormalized_text = ""
    /\ calls = 0
    /\ tokenizer_loads = 0
    /\ model_loads = 0
    /\ hash_seed \in HashSeeds
    /\ query_keywords = <<>>
    /\ enhanced_query = ""
    /\ previous_query = ""
    /\ extracted = <<>>

\* one iteration of the loop over collections (run_collection.py lines
\* 236-240) as far as the encoder is concerned: process_collection calls
\* rank_sections on the sections of the collection (line 99)
RankCollection ==
    /\ driver = "process"
    /\ calls < MaxCalls
    /\ \E sections \in CollectionSections :
          /\ all_sections' = sections
          /\ created' = sections
          /\ CallRankSections(sections)
    /\ UNCHANGED <<driver, documents, pc, docs_done, persona, job, page_vars, query_vars, extracted>>

\* a call of initialize_bert_model on its own (ranker.py lines 19-60)
CallInitializeBertModel ==
    /\ driver = "process"
    /\ calls < MaxCalls
    /\ \E ini \in initialize_bert_model :
          /\ _tokenizer' = ini.tok
          /\ _model' = ini.mdl
          /\ _model_initialized' = ini.init
          /\ tokenizer_loads' = tokenizer_loads + ini.tok_loaded
          /\ model_loads' = model_loads + ini.mdl_loaded
    /\ calls' = calls + 1
    /\ UNCHANGED <<driver, documents, pc, docs_done, all_sections, created,
                   persona, job, filtered_sections, expanded_terms, baseline,
                   query_keywords, enhanced_query,
                   similarities, ranked_sections, subsection_analysis,
                   rank_outcome, page_vars, query_vars, extracted>>

NextProcess ==
    \/ RankCollection
    \/ CallInitializeBertModel

SpecProcess == InitProcess /\ [][NextProcess]_vars

-----------------------------------------------------------------------------
(* Properties of the ranking pipeline, checked under Spec *)

RECURSIVE IsSubsequence(_, _)
IsSubsequence(a, b) ==
    IF a = <<>> THEN TRUE
    ELSE IF b = <<>> THEN FALSE
    ELSE IF Head(a) = Head(b) THEN IsSubsequence(Tail(a), Tail(b))
    ELSE IsSubsequence(a, Tail(b))

\* the call of rank_sections got past the quality filter
FilterReturned ==
    \/ rank_outcome \in {"return", "empty"}
    \/ rank_outcome = "caught" /\ filtered_sections # <<>>

\* C1: the list filter_sections_for_bert returns is an order-preserving
\* subsequence of its input (nothing added, nothing repeated) of at most 20
\* sections.
C1_FilterSubsequence ==
    /\ IsSubsequence(filtered_sections, all_sections)
    /\ Len(filtered_sections) <= 20

\* more than 20 sections pass the filter's conditions and 20 are returned
C1_Witness ==
    /\ rank_outcome = "return"
    /\ Len(filtered_sections) = 20
    /\ Len(SelectSeq(all_sections, passes_quality)) > 20

\* the condition of the primary pass as the claim words it
KeptByPrimary(section) ==
    LET title == strip(section.section_title)
        text  == strip(section.section_text)
    IN  /\ Len(title) >= 3
        /\ Len(text) >= 20 /\ Len(text) <= 1000
        /\ ~is_low_quality_section(title, text)

PrimarySurvivors == SelectSeq(all_sections, KeptByPrimary)

\* C2: when the primary pass keeps at least 5 sections, the result is the
\* first 20 of its survivors in input order; the relaxed pass adds nothing.
C2_PrimaryPreferred ==
    (FilterReturned /\ Len(PrimarySurvivors) >= 5) =>
        filtered_sections =
            SubSeq(PrimarySurvivors, 1,
                   IF Len(PrimarySurvivors) < 20 THEN Len(PrimarySurvivors) ELSE 20)

\* exactly 5 sections survive the primary pass, and the input holds sections
\* only the relaxed pass would keep
C2_Witness ==
    /\ rank_outcome = "return"
    /\ Len(PrimarySurvivors) = 5
    /\ Len(filtered_sections) = 5
    /\ Len(SelectSeq(all_sections, passes_relaxed)) > 5

\* C3: create_ranked_results returns at most 15 ranked entries, and their
\* importance_rank values are 1, 2, ..., n in list order.
C3_RanksContiguous ==
    /\ Len(ranked_sections) <= 15
    /\ \A r \in 1..Len(ranked_sections) : ranked_sections[r].importance_rank = r

\* more than 15 scored sections, 15 entries returned
C3_Witness ==
    /\ rank_outcome = "return"
    /\ Len(similarities) > 15
    /\ Len(ranked_sections) = 15

\* the scored sections ahead of the i-th one: a higher score, or the same
\* score and an earlier place in the input
Ahead(i) ==
    {j \in 1..Len(similarities) :
        \/ similarities[j] > similarities[i]
        \/ similarities[j] = similarities[i] /\ j < i}

\* the input index whose section belongs at place r of the ranked list
SourceOf(r) == CHOOSE i \in 1..Len(similarities) : Cardinality(Ahead(i)) = r - 1

\* C4: the ranked list is in non-increasing score order, sections of equal
\* score keep the relative order of the input, and the cut at 15 keeps the
\* earliest of the tied sections.
C4_StableDescending ==
    rank_outcome = "return" =>
        /\ \A r \in 1..(Len(ranked_sections) - 1) :
              ranked_sections[r].similarity_score >= ranked_sections[r + 1].similarity_score
        /\ Len(ranked_sections) =
              (IF Len(similarities) < 15 THEN Len(similarities) ELSE 15)
        /\ \A r \in 1..Len(ranked_sections) :
              LET i == SourceOf(r)
              IN  /\ ranked_sections[r].similarity_score = similarities[i]
                  /\ ranked_sections[r].document = filtered_sections[i].document
                  /\ ranked_sections[r].section_title = filtered_sections[i].section_title
                  /\ ranked_sections[r].page_number = filtered_sections[i].page_number
                  /\ subsection_analysis[r].page_number = filtered_sections[i].page_number
                  /\ subsection_analysis[r].document = filtered_sections[i].document

\* the cut at 15 falls between two sections of equal score
C4_Witness ==
    /\ rank_outcome = "return"
    /\ Len(similarities) > 15
    /\ similarities[SourceOf(15)] = similarities[SourceOf(16)]
    /\ ranked_sections[15].page_number = filtered_sections[SourceOf(15)].page_number
    /\ SourceOf(15) < SourceOf(16)

\* the created Section an output entry stands for: the same title, type,
\* page and document
FromCreated(entry) ==
    \E i \in 1..Len(created) :
        /\ created[i].section_title = entry.section_title
        /\ created[i].section_type = entry.section_type
        /\ created[i].page_number = entry.page_number
        /\ created[i].document = entry.document

\* C9: every entry of both output lists carries the page_number and the
\* document its Section was created with; no stage in between, the drivers
\* included, rewrites them.
C9_FieldsPreserved ==
    /\ \A r \in 1..Len(ranked_sections) : FromCreated(ranked_sections[r])
    /\ \A r \in 1..Len(subsection_analysis) : FromCreated(subsection_analysis[r])

\* C10: rank_sections never lets an exception reach its caller, and returns
\* two empty lists for an empty input, a failed encoder initialization, an
\* empty filter result and an exception inside the try block.
C10_DegradesToEmpty ==
    /\ rank_outcome # "raise"
    /\ rank_outcome \in {"no_sections", "no_model", "empty", "caught"} =>
          ranked_sections = <<>> /\ subsection_analysis = <<>>

\* an exception raised by the result assembly, after scoring, was caught
C10_Witness ==
    /\ rank_outcome = "caught"
    /\ similarities # <<>>
    /\ ranked_sections = <<>>
    /\ subsection_analysis = <<>>

-----------------------------------------------------------------------------
(* Properties of persona boosting, checked under SpecBoost *)

\* the keyword counts of apply_persona_boosting for the section at index i
TitleMatches(i) ==
    Cardinality({kw \in expanded_terms :
                    IsSubstr(kw, lower(filtered_sections[i].section_title))})

TextMatches(i) ==
    Cardinality({kw \in expanded_terms :
                    IsSubstr(kw, lower(filtered_sections[i].section_text))})

\* C5: boosting is monotonic for any baseline in [-1, 1]: of two sections
\* with the same type and the same baseline similarity, the one with at least
\* as many title matches and at least as many text matches never ends with
\* the lower boosted score.
C5_BoostMonotonic ==
    pc = "boosted" =>
        \A i \in 1..Len(filtered_sections), j \in 1..Len(filtered_sections) :
            ( /\ filtered_sections[i].section_type = filtered_sections[j].section_type
              /\ baseline[i] = baseline[j]
              /\ TitleMatches(i) <= TitleMatches(j)
              /\ TextMatches(i) <= TextMatches(j) )
            => similarities[i] <= similarities[j]

\* C6: a recipe_component section scores strictly higher after boosting than
\* before whenever the expanded keywords contain "food", whatever the
\* baseline (scores after boosting are in ten-thousandths, baselines in
\* hundredths).
C6_RecipeStrictlyHigher ==
    (pc = "boosted" /\ "food" \in expanded_terms) =>
        \A i \in 1..Len(filtered_sections) :
            filtered_sections[i].section_type = "recipe_component"
            => similarities[i] > baseline[i] * 100

-----------------------------------------------------------------------------
(* Properties of page parsing, checked under SpecPage *)

\* C7: on the page "INGREDIENTS: flour, sugar\nINSTRUCTIONS: mix and bake"
\* the recipe-component strategy, run on the normalized page text, emits a
\* section titled "Ingredients" and a section titled "Instructions", each
\* with non-empty text.
C7_ScenarioSections ==
    (pc = "detected" /\ page_text = ScenarioPage) =>
        /\ \E k \in 1..Len(created) :
               /\ created[k].section_title = "Ingredients"
               /\ created[k].section_text # ""
        /\ \E k \in 1..Len(created) :
               /\ created[k].section_title = "Instructions"
               /\ created[k].section_text # ""

\* C8: normalize_text is idempotent: normalizing text that normalize_text
\* returned gives the same text back.
C8_NormalizeIdempotent ==
    pc = "renormalized" => renormalized_text = cleaned_text

\* a page that the first normalization changed around a period, normalized
\* a second time
C8_Witness ==
    /\ pc = "renormalized"
    /\ cleaned_text # page_text
    /\ \E i \in 1..Len(cleaned_text) : Ch(cleaned_text, i) = "."
    /\ renormalized_text = cleaned_text

-----------------------------------------------------------------------------
(* Properties of the process-wide encoder, checked under SpecProcess *)

\* C11: across any sequence of rank_sections / initialize_bert_model calls in
\* one process the tokenizer and the encoder are loaded once, on the first
\* call, and every later call reuses them without loading again: neither is
\* ever loaded a second time.
C11_LoadedOnce ==
    tokenizer_loads <= 1 /\ model_loads <= 1

-----------------------------------------------------------------------------
(* Properties of the query construction, checked under SpecQuery *)

\* C12: query construction is deterministic: two runs on the same persona and
\* job build the same enhanced query text, the text placed at index 0 for
\* embedding.
C12_QueryDeterministic ==
    pc = "done" => enhanced_query = previous_query

\* persona + ' ' + job, lowercased
CombinedText == lower(persona \o " " \o job)

\* the places where the token stands as a whole word in the text
WordPositions(w, text) ==
    {i \in 1..(Len(text) - Len(w) + 1) :
        /\ SubSeq(text, i, i + Len(w) - 1) = w
        /\ (i = 1 \/ ~IsWordCh(Ch(text, i - 1)))
        /\ (i + Len(w) > Len(text) \/ ~IsWordCh(Ch(text, i + Len(w))))}

\* C13: extract_dynamic_persona_keywords returns at most 12 pairwise-distinct
\* lowercase alphabetic tokens of length >= 3, none of them a stop word,
\* ordered by first occurrence in persona + ' ' + job; for "Food Contractor"
\* and "Prepare a vegetarian buffet for a corporate gathering" the result
\* contains "vegetarian", "corporate", "gathering" and "prepare".
C13_KeywordsShape ==
    pc # "first" =>
        LET text  == CombinedText
            n     == Len(query_keywords)
            found == [a \in 1..n |-> WordPositions(query_keywords[a], text)]
        IN  /\ n <= 12
            /\ \A a \in 1..n :
                   LET w == query_keywords[a]
                   IN  /\ Len(w) >= 3
                       /\ \A i \in 1..Len(w) : IsLower(Ch(w, i))
                       /\ w \notin stop_words
                       /\ found[a] # {}
            /\ \A a \in 1..n, b \in 1..n :
                   a < b =>
                       /\ query_keywords[a] # query_keywords[b]
                       /\ SetMin(found[a]) < SetMin(found[b])
            /\ ( /\ persona = "Food Contractor"
                  /\ job = "Prepare a vegetarian buffet for a corporate gathering" )
               => {"vegetarian", "corporate", "gathering", "prepare"}
                      \subseteq {query_keywords[a] : a \in 1..n}

\* a run whose persona and job hold a repeated word, a stop word and more
\* than 12 candidate tokens
C13_Witness ==
    /\ pc # "first"
    /\ Len(query_keywords) = 12
    /\ LET text == CombinedText
       IN  /\ Cardinality(WordPositions("plan", text)) > 1
           /\ WordPositions("the", text) # {}
    /\ \E a \in 1..Len(query_keywords) : query_keywords[a] = "plan"

\* the first three synonyms the table maps a keyword to
TopSynonyms(kw) ==
    {synonym_map[kw][n] : n \in {m \in 1..Len(synonym_map[kw]) : m <= 3}}

\* C14: expand_query_semantically returns exactly the keywords together with
\* the first 3 mapped synonyms of every keyword that is a key of the synonym
\* table: every keyword is kept, every such synonym is added, nothing else
\* is; for "Food Contractor" and "Prepare a vegetarian buffet for a corporate
\* gathering" the expanded terms are a strict superset of the keywords.
C14_ExpansionExact ==
    pc # "first" =>
        LET kws == {query_keywords[a] : a \in 1..Len(query_keywords)}
        IN  /\ kws \subseteq expanded_terms
            /\ \A kw \in kws \cap DOMAIN synonym_map :
                   TopSynonyms(kw) \subseteq expanded_terms
            /\ \A t \in expanded_terms :
                   \/ t \in kws
                   \/ \E kw \in kws \cap DOMAIN synonym_map : t \in TopSynonyms(kw)
            /\ ( /\ persona = "Food Contractor"
                  /\ job = "Prepare a vegetarian buffet for a corporate gathering" )
               => (kws \subseteq expanded_terms /\ kws # expanded_terms)

\* the catering scenario: a keyword with more than three synonyms in the
\* table, expanded
C14_Witness ==
    /\ pc # "first"
    /\ persona = "Food Contractor"
    /\ job = "Prepare a vegetarian buffet for a corporate gathering"
    /\ \E a \in 1..Len(query_keywords) :
           /\ query_keywords[a] \in DOMAIN synonym_map
           /\ Len(synonym_map[query_keywords[a]]) > 3
    /\ Cardinality(expanded_terms) > Len(query_keywords)

-----------------------------------------------------------------------------
(* Properties of extract_sections, checked under Spec *)

\* the pages of a file whose text extraction and segmentation succeed with a
\* text that is not empty
GoodPages(pdf) ==
    {p \in 1..pdf.pages :
        /\ PageKind(pdf.layout, p) # "broken"
        /\ strip(PageText(PageKind(pdf.layout, p))) # ""}

\* the sections of a list that carry the page number
OfPage(sections, p) == SelectSeq(sections, LAMBDA sec : sec.page_number = p)

\* C15: extract_sections skips a page whose text is empty or whose
\* processing raises and continues with the pages behind it: the result of
\* every call on a readable file holds no section of a skipped page, holds
\* for every other page exactly the sections parse_page_content returns for
\* it, and is in page order.
C15_SkipAndContinue ==
    \A k \in 1..Len(extracted) :
        LET call == extracted[k]
            good == GoodPages(call.pdf)
        IN  call.pdf.readable =>
                /\ \A i \in 1..Len(call.sections) :
                       call.sections[i].page_number \in good
                /\ \A i \in 1..Len(call.sections), j \in 1..Len(call.sections) :
                       i < j => call.sections[i].page_number
                                    <= call.sections[j].page_number
                /\ \A p \in good :
                       OfPage(call.sections, p)
                           = page_sections(PageKind(call.pdf.layout, p),
                                           call.pdf_path, p)

\* a file with an empty page and a raising page in front of a page with
\* text, extracted up to that last page
C15_Witness ==
    \E k \in 1..Len(extracted) :
        LET call == extracted[k]
        IN  /\ \E p \in 1..call.pdf.pages : PageKind(call.pdf.layout, p) = "broken"
            /\ \E p \in 1..call.pdf.pages :
                   /\ PageKind(call.pdf.layout, p) # "broken"
                   /\ strip(PageText(PageKind(call.pdf.layout, p))) = ""
            /\ \E i \in 1..Len(call.sections) :
                   /\ call.sections[i].page_number = call.pdf.pages
                   /\ \E p \in 1..(call.pdf.pages - 1) :
                          PageKind(call.pdf.layout, p) = "broken"

-----------------------------------------------------------------------------
(* Properties of the two result lists, checked under Spec *)

\* C16: the two lists rank_sections returns are parallel: they have the same
\* length, the entries at every index describe the same section (document,
\* section_title, page_number and section_type agree), and the ranked entry
\* carries no text body.
C16_ParallelLists ==
    /\ Len(ranked_sections) = Len(subsection_analysis)
    /\ \A i \in 1..Len(ranked_sections) :
           LET r == ranked_sections[i]
               a == subsection_analysis[i]
           IN  /\ r.document = a.document
               /\ r.section_title = a.section_title
               /\ r.page_number = a.page_number
               /\ r.section_type = a.section_type
               /\ "section_text" \notin DOMAIN r
               /\ "refined_text" \notin DOMAIN r
               /\ "refined_text" \in DOMAIN a

\* a ranking that returned its sections in another order than they came in
C16_Witness ==
    /\ rank_outcome = "return"
    /\ Len(ranked_sections) >= 2
    /\ \E i \in 1..Len(ranked_sections) :
           ranked_sections[i].section_title # filtered_sections[i].section_title

\* the sections of one type, in the order of the list
OfType(sections, type) == SelectSeq(sections, LAMBDA x : x.section_type = type)

\* C17: the list parse_page_content returns for a page is the output of the
\* heading strategy, then that of the recipe strategy, then that of the
\* procedural strategy, each section of each strategy kept; the content
\* blocks are made if and only if the three outputs are all empty, and are
\* then the whole result.
C17_StrategiesConcatenated ==
    pc = "parsed" =>
        LET cleaned    == normalize_text(page_text)
            heading    == detect_heading_sections(cleaned, documents[1], 1)
            recipe     == detect_recipe_sections(cleaned, documents[1], 1)
            procedural == detect_procedural_sections(cleaned, documents[1], 1)
            found      == Len(heading) + Len(recipe) + Len(procedural)
            blocks     == OfType(created, "content_block")
        IN  /\ found > 0 => /\ created = heading \o recipe \o procedural
                            /\ Len(created) = found
                            /\ blocks = <<>>
            /\ found = 0 => /\ created = create_content_blocks(cleaned, documents[1], 1)
                            /\ blocks = created

\* a page where the recipe and the procedural strategy both keep the same
\* words, each in a section of its own
C17_Witness ==
    /\ pc = "parsed"
    /\ \E i, j \in 1..Len(created) :
           /\ i < j
           /\ created[i].section_type = "recipe_component"
           /\ created[j].section_type = "procedural"
           /\ IsSubstr(created[i].section_text, created[j].section_text)

\* the matches of the four marker patterns, of the recipe block pattern and
\* of the three procedural patterns in a text
MarkerMatches(text) ==
    finditer_marker(text, 1, recipe_patterns[1])
    \o finditer_marker(text, 1, recipe_patterns[2])
    \o finditer_marker(text, 1, recipe_patterns[3])
    \o finditer_marker(text, 1, recipe_patterns[4])

ProceduralMatches(text) ==
    finditer_steps(text, 1, FALSE) \o finditer_steps(text, 1, TRUE)
    \o finditer_sequence(text, 1)

\* the number of matches whose trimmed content has at least min characters
AtLeast(matches, min) ==
    Len(SelectSeq(matches, LAMBDA m : Len(strip(m[2])) >= min))

\* C20: a marker match yields a recipe_component section exactly when its
\* trimmed content has 20 characters or more, a procedural match a section
\* exactly when it has 30 or more, a recipe block a complete_recipe section
\* exactly when it has 100 or more.
C20_DiscardBelowMinimum ==
    pc = "parsed" =>
        /\ Len(OfType(created, "recipe_component"))
               = AtLeast(MarkerMatches(cleaned_text), MinRecipeContent)
        /\ Len(OfType(created, "procedural"))
               = AtLeast(ProceduralMatches(cleaned_text), MinProcContent)
        /\ Len(OfType(created, "complete_recipe"))
               = AtLeast(finditer_block(cleaned_text, 1), MinBlockContent)

\* the part of the multiplier that the keyword counts of the section at index
\* i give, in hundredths: 0.25 + 0.10 t if t >= 1, and 0.10 + 0.05 x if x >= 1
MatchBoost(i) ==
    (IF TitleMatches(i) >= 1 THEN 25 + 10 * TitleMatches(i) ELSE 0)
    + (IF TextMatches(i) >= 1 THEN 10 + 5 * TextMatches(i) ELSE 0)

\* C18: the recipe boost of 0.20 is applied to a section exactly when its type
\* is a recipe type and one of food, recipe, vegetarian, menu is an element of
\* the expanded terms, the procedural boost of 0.15 exactly when its type is
\* heading_based or procedural and one of plan, organize, prepare, create is
\* an element; a term that only holds such a word inside it triggers neither.
C18_TypeBoostByElement ==
    pc = "boosted" =>
        \A i \in 1..Len(filtered_sections) :
            LET type == filtered_sections[i].section_type
                recipe == IF /\ type \in {"recipe_component", "complete_recipe",
                                          "individual_recipe"}
                             /\ expanded_terms
                                  \cap {"food", "recipe", "vegetarian", "menu"} # {}
                          THEN 20 ELSE 0
                proc   == IF /\ type \in {"heading_based", "procedural"}
                             /\ expanded_terms
                                  \cap {"plan", "organize", "prepare", "create"} # {}
                          THEN 15 ELSE 0
            IN  similarities[i] = baseline[i] * (100 + MatchBoost(i) + recipe + proc)

\* C19: every boosted score is its baseline times one factor, applied once:
\* 1.0, plus the title part and the text part of the keyword counts, plus the
\* boost of the section's type where one is added (0.20 for a recipe type,
\* 0.15 for heading_based or procedural, never both); the scores stand one to
\* one beside the sections, and with no expanded term every score is its
\* baseline.  Scores are in ten-thousandths, baselines in hundredths.
C19_FactorAppliedOnce ==
    pc = "boosted" =>
        /\ Len(similarities) = Len(filtered_sections)
        /\ \A i \in 1..Len(filtered_sections) :
               LET type == filtered_sections[i].section_type
                   type_boosts ==
                       {0} \cup (IF type \in {"recipe_component", "complete_recipe",
                                              "individual_recipe"} THEN {20} ELSE {})
                           \cup (IF type \in {"heading_based", "procedural"}
                                 THEN {15} ELSE {})
               IN  /\ \E b \in type_boosts :
                          similarities[i] = baseline[i] * (100 + MatchBoost(i) + b)
                   /\ expanded_terms = {} => similarities[i] = baseline[i] * 100

\* a section with several title and text matches and a type boost, boosted
\* from a positive baseline
C19_Witness ==
    /\ pc = "boosted"
    /\ \E i \in 1..Len(filtered_sections) :
           /\ TitleMatches(i) >= 2
           /\ TextMatches(i) >= 2
           /\ baseline[i] > 0
           /\ similarities[i] > baseline[i] * (100 + MatchBoost(i))

-----------------------------------------------------------------------------
(* Properties of the quality filter, checked under SpecFilter *)

\* the condition of the relaxed pass as the claim words it
KeptByRelaxed(section) ==
    /\ Len(strip(section.section_title)) >= 2
    /\ Len(strip(section.section_text)) >= 15

RelaxedSurvivors == SelectSeq(all_sections, KeptByRelaxed)

\* the number of relaxed survivors among the first k sections of the input
RelaxedUpTo(k) == Len(SelectSeq(SubSeq(all_sections, 1, k), KeptByRelaxed))

\* C21: when the primary pass keeps fewer than 5 sections, the output is the
\* first 20, in input order, of the sections with a title of 2 or more and a
\* text of 15 or more characters, whatever their low-quality flags and
\* however long their text; every section the primary pass would have kept
\* is in it unless 20 relaxed survivors stand before it in the input.
C21_RelaxedPass ==
    (pc = "filtered" /\ Len(PrimarySurvivors) < 5) =>
        /\ filtered_sections =
               SubSeq(RelaxedSurvivors, 1,
                      IF Len(RelaxedSurvivors) < 20 THEN Len(RelaxedSurvivors) ELSE 20)
        /\ \A k \in 1..Len(all_sections) :
               KeptByPrimary(all_sections[k]) =>
                   \/ RelaxedUpTo(k - 1) >= 20
                   \/ \E i \in 1..Len(filtered_sections) :
                          filtered_sections[i] = all_sections[k]

\* the primary pass kept some sections but fewer than 5; the output holds
\* them beside a flagged section and a section of more than 1000 characters
C21_Witness ==
    /\ pc = "filtered"
    /\ Len(PrimarySurvivors) \in 1..4
    /\ \A k \in 1..Len(PrimarySurvivors) :
           \E i \in 1..Len(filtered_sections) : filtered_sections[i] = PrimarySurvivors[k]
    /\ \E i \in 1..Len(filtered_sections) :
           is_low_quality_section(strip(filtered_sections[i].section_title),
                                  strip(filtered_sections[i].section_text))
    /\ \E i \in 1..Len(filtered_sections) :
           Len(strip(filtered_sections[i].section_text)) > 1000

-----------------------------------------------------------------------------
(* Properties of the content blocks, checked under SpecBlocks *)

\* the trimmed, non-empty sentences of a text, in order
SentencesOf(text) ==
    LET pieces == split_sentences(text)
    IN  SelectSeq([k \in 1..Len(pieces) |-> strip(pieces[k])], LAMBDA x : x # "")

\* the number of words of a list of sentences
RECURSIVE WordsOf(_)
WordsOf(sentences) ==
    IF sentences = <<>> THEN 0
    ELSE Len(split(Head(sentences))) + WordsOf(Tail(sentences))

\* the sentences of the first n blocks, one list
RECURSIVE SentencesOfBlocks(_, _)
SentencesOfBlocks(blocks, n) ==
    IF n = 0 THEN <<>>
    ELSE SentencesOfBlocks(blocks, n - 1) \o SentencesOf(blocks[n].section_text)

\* C22: the blocks of create_content_blocks hold the page's non-empty
\* sentences in order, each sentence in exactly one block; every block but
\* the last has 150 words or more, no block had 150 words before its last
\* sentence was added, a partial block at the end of the page is emitted, and
\* the titles count 1, 2, ..., k.
C22_BlocksPartition ==
    pc = "blocked" =>
        /\ SentencesOfBlocks(created, Len(created)) = SentencesOf(cleaned_text)
        /\ \A k \in 1..Len(created) :
               LET sentences == SentencesOf(created[k].section_text)
                   n == Len(sentences)
                   head == "Content Block " \o ToString(k) \o ": "
               IN  /\ n >= 1
                   /\ k < Len(created) => WordsOf(sentences) >= 150
                   /\ WordsOf(SubSeq(sentences, 1, n - 1)) < 150
                   /\ SubSeq(created[k].section_title, 1, Len(head)) = head
                   /\ created[k].section_type = "content_block"

\* a block closed by its second sentence, followed by a partial block
C22_Witness ==
    /\ pc = "blocked"
    /\ Len(created) = 2
    /\ Len(SentencesOf(created[1].section_text)) = 2
    /\ WordsOf(SentencesOf(created[2].section_text)) \in 1..149

-----------------------------------------------------------------------------
(* The cap of the filter seen from the output of rank_sections, under Spec *)

\* the survivors of the pass in force, all of them, in input order
Survivors ==
    IF Len(PrimarySurvivors) >= 5 THEN PrimarySurvivors ELSE RelaxedSurvivors

\* an output entry stands for the section: the same document, title, page
\* and type
StandsFor(entry, section) ==
    /\ entry.document = section.document
    /\ entry.section_title = section.section_title
    /\ entry.page_number = section.page_number
    /\ entry.section_type = section.section_type

\* the places behind the 20th of the survivors that differ from each of the
\* first 20
LateSurvivors(survivors, first) ==
    {k \in 21..Len(survivors) :
        \A i \in 1..Len(first) :
            ~StandsFor(ranked_entry(0, 0, survivors[k]), first[i])}

\* C23: every entry of the ranked list and of the analysis list stands for
\* one of the first 20 survivors of the filter, in input order; a survivor
\* behind the 20th has no entry in either list.
C23_CapBeforeScoring ==
    rank_outcome = "return" =>
        LET survivors == Survivors
            first == SubSeq(survivors, 1,
                            IF Len(survivors) < 20 THEN Len(survivors) ELSE 20)
            late == LateSurvivors(survivors, first)
        IN  /\ \A r \in 1..Len(ranked_sections) :
                   \E i \in 1..Len(first) : StandsFor(ranked_sections[r], first[i])
            /\ \A r \in 1..Len(subsection_analysis) :
                   \E i \in 1..Len(first) : StandsFor(subsection_analysis[r], first[i])
            /\ \A k \in late :
                   /\ \A r \in 1..Len(ranked_sections) :
                          ~StandsFor(ranked_sections[r], survivors[k])
                   /\ \A r \in 1..Len(subsection_analysis) :
                          ~StandsFor(subsection_analysis[r], survivors[k])

\* a survivor behind the 20th that the encoder and the boosts would have
\* scored above the last ranked entry
C23_Witness ==
    /\ rank_outcome = "return"
    /\ Len(ranked_sections) >= 1
    /\ LET survivors == Survivors
           first == SubSeq(survivors, 1,
                           IF Len(survivors) < 20 THEN Len(survivors) ELSE 20)
       IN  \E k \in LateSurvivors(survivors, first) :
               LET scored == apply_persona_boosting(
                                 << cosine_similarity(_model, enhanced_query,
                                                      enhanced_text(survivors[k])) >>,
                                 << survivors[k] >>, expanded_terms)
               IN  scored[1] > ranked_sections[Len(ranked_sections)].similarity_score

-----------------------------------------------------------------------------
(* The heading strategy behind the normalization, checked under SpecParse *)

\* C24: the text normalize_text returns holds no line break, so
\* detect_heading_sections finds no section in it, and no section of type
\* heading_based is in what parse_page_content returns, whatever the page.
C24_NoHeadingSections ==
    pc = "parsed" =>
        /\ \A i \in 1..Len(cleaned_text) : Ch(cleaned_text, i) # "\n"
        /\ detect_heading_sections(cleaned_text, documents[1], 1) = <<>>
        /\ OfType(created, "heading_based") = <<>>

\* a page with a heading line and a body line under it: the heading strategy
\* finds a section in the raw text
C24_Witness ==
    /\ pc = "parsed"
    /\ \E i \in 1..Len(page_text) : Ch(page_text, i) = "\n"
    /\ detect_heading_sections(page_text, documents[1], 1) # <<>>

-----------------------------------------------------------------------------
(* The process-wide encoder state, checked under SpecProcess *)

\* one call of initialize_bert_model, on its own or from rank_sections
EncoderCall == calls' = calls + 1

\* what C25 says of one step
C25_Step ==
    /\ _model_initialized => _model_initialized'
    /\ (EncoderCall /\ ~_model_initialized') =>
           /\ _model' = "None"
           /\ _tokenizer' \in {_tokenizer, "roberta-base"}
           /\ model_loads' = model_loads
           /\ rank_outcome' \in {rank_outcome, "no_model"}
    /\ (EncoderCall /\ rank_outcome' = "no_model" /\ rank_outcome # "no_model") =>
           /\ ~_model_initialized'
           /\ ranked_sections' = <<>>
           /\ subsection_analysis' = <<>>
    /\ (EncoderCall /\ ~_model_initialized /\ _model_initialized') =>
           /\ tokenizer_loads' = tokenizer_loads + 1
           /\ model_loads' = model_loads + 1
    /\ (EncoderCall /\ _model_initialized) =>
           /\ tokenizer_loads' = tokenizer_loads
           /\ model_loads' = model_loads
           /\ _tokenizer' = _tokenizer
           /\ _model' = _model

\* C25: _model_initialized is true only while _tokenizer and _model are both
\* loaded, and once true it stays true; a failed initialization leaves it
\* false, with _model still None and _tokenizer possibly set, and hands
\* (None, None) to rank_sections, which returns two empty lists; a call made
\* while it is false runs both loads again, a call made while it is true
\* loads nothing.
C25_InitializedFlag ==
    /\ [](_model_initialized => (_tokenizer # "None" /\ _model # "None"))
    /\ [](~_model_initialized => _model = "None")
    /\ [][C25_Step]_vars

\* a call failed with the tokenizer loaded, and a later call loaded both
C25_Witness ==
    /\ _model_initialized
    /\ calls >= 2
    /\ tokenizer_loads = 2
    /\ model_loads = 1

=============================================================================
